---- MODULE Spec2Model ----
(***************************************************************************)
(* A model of giff-version-differ: the commit-range resolution and         *)
(* streaming-fetch pipeline of src/lib/core.js, the stream routes that     *)
(* drive it, and the earlier graph/linear variants kept in the repository. *)
(*                                                                         *)
(* Strings the code inspects character by character (paths, exclude        *)
(* patterns) are sequences of one-character strings.  A JavaScript null,   *)
(* undefined or "" option is the empty sequence: the code only ever tests  *)
(* such options for truthiness.                                            *)
(***************************************************************************)
EXTENDS Integers, Sequences, FiniteSets, TLC

\* ------------------------------------------------------------------------
\* String helpers (String.prototype.*)
\* ------------------------------------------------------------------------

Truthy(s) == s # <<>>

Falsy(s) == s = <<>>

\* s.startsWith(p)
StartsWith(s, p) == Len(p) <= Len(s) /\ SubSeq(s, 1, Len(p)) = p

\* s.includes(p)
Includes(s, p) == \E i \in 1..(Len(s) - Len(p) + 1) : SubSeq(s, i, i + Len(p) - 1) = p

\* s.substring(n)
Substring(s, n) == SubSeq(s, n + 1, Len(s))

\* What \s and trim() take for white space, of the characters used here.
WhiteSpace == {" ", "\t", "\n", "\r"}

IsSpace(c) == c \in WhiteSpace

RECURSIVE TrimStart(_)
TrimStart(s) == IF s # <<>> /\ IsSpace(Head(s)) THEN TrimStart(Tail(s)) ELSE s

RECURSIVE TrimEnd(_)
TrimEnd(s) == IF s # <<>> /\ IsSpace(s[Len(s)]) THEN TrimEnd(SubSeq(s, 1, Len(s) - 1)) ELSE s

\* s.trim()
Trim(s) == TrimEnd(TrimStart(s))

\* s.split(","): the pieces between the commas; "" splits to [""].
RECURSIVE SplitFrom(_, _)
SplitFrom(s, cur) ==
    IF s = <<>> THEN <<cur>>
    ELSE IF Head(s) = "," THEN <<cur>> \o SplitFrom(Tail(s), <<>>)
    ELSE SplitFrom(Tail(s), Append(cur, Head(s)))

Split(s) == SplitFrom(s, <<>>)

\* ------------------------------------------------------------------------
\* Directory filter
\* ------------------------------------------------------------------------

\* excludeSubPaths.split(",").map(trim).filter(nonempty)
ExcludePatterns(excludeSubPaths) ==
    LET pieces == Split(excludeSubPaths)
    IN  SelectSeq([i \in 1..Len(pieces) |-> Trim(pieces[i])], Truthy)

\* The relative path with its leading "/" left in place.
CleanRelativePath_KeepSlash(file, targetDir) ==
    IF Truthy(targetDir) THEN Substring(file, Len(targetDir)) ELSE file

\* The relative path the patterns are compared with.
CleanRelativePath(file, targetDir) ==
    LET relativePath == IF Truthy(targetDir) THEN Substring(file, Len(targetDir)) ELSE file
    IN  IF StartsWith(relativePath, <<"/">>) THEN Substring(relativePath, 1) ELSE relativePath

InvalidPattern(pattern) ==
    StartsWith(pattern, <<"/">>) \/ Includes(pattern, <<".", ".", "/">>)

PatternExcludes(pattern, file, targetDir) ==
    IF InvalidPattern(pattern) THEN FALSE
    ELSE StartsWith(CleanRelativePath(file, targetDir), pattern)

HasTargetChanges(files, targetDir) ==
    IF Truthy(targetDir)
    THEN \E i \in 1..Len(files) : StartsWith(files[i], targetDir)
    ELSE TRUE

FilesToCheck(files, targetDir) ==
    IF Truthy(targetDir)
    THEN SelectSeq(files, LAMBDA f : StartsWith(f, targetDir))
    ELSE files

shouldIncludeCommit(files, targetDir, excludeSubPaths) ==
    IF Falsy(targetDir) /\ Falsy(excludeSubPaths) THEN TRUE
    ELSE IF ~HasTargetChanges(files, targetDir) THEN FALSE
    ELSE IF Truthy(excludeSubPaths)
         THEN LET excludePatterns == ExcludePatterns(excludeSubPaths)
                  filesToCheck == FilesToCheck(files, targetDir)
                  allExcluded ==
                      \A i \in 1..Len(filesToCheck) :
                          \E j \in 1..Len(excludePatterns) :
                              PatternExcludes(excludePatterns[j], filesToCheck[i], targetDir)
              IN  IF Len(excludePatterns) = 0 THEN HasTargetChanges(files, targetDir)
                  ELSE IF Len(filesToCheck) = 0 THEN FALSE
                  ELSE ~allExcluded
         ELSE HasTargetChanges(files, targetDir)

\* ------------------------------------------------------------------------
\* Repository URL parser
\* ------------------------------------------------------------------------

IsSlash(c) == c = "/"

\* The longest prefix of s holding no "/" (what [^\/]+ consumes).
RECURSIVE NonSlashRun(_)
NonSlashRun(s) ==
    IF s = <<>> \/ IsSlash(Head(s)) THEN <<>>
    ELSE <<Head(s)>> \o NonSlashRun(Tail(s))

EndsWith(s, p) == Len(p) <= Len(s) /\ SubSeq(s, Len(s) - Len(p) + 1, Len(s)) = p

DotGit == <<".", "g", "i", "t">>

\* A repo group that keeps the ".git" of the segment.
RepoOfSegment_KeepGit(seg) == seg

\* ([^\/]+?)(?:\.git)? on one path segment: the lazy group gives up one
\* trailing ".git" when something is left in front of it.
RepoOfSegment(seg) ==
    IF EndsWith(seg, DotGit) /\ Len(seg) > Len(DotGit)
    THEN SubSeq(seg, 1, Len(seg) - Len(DotGit))
    ELSE seg

HostSlash == <<"g", "i", "t", "h", "u", "b", ".", "c", "o", "m", "/">>

HostColon == <<"g", "i", "t", "h", "u", "b", ".", "c", "o", "m", ":">>

NoMatch == [matched |-> FALSE, owner |-> <<>>, repo |-> <<>>]

\* Match of <host>([^\/]+)\/([^\/]+?)(?:\.git)?<tail>$ with the host literal
\* starting at index i of url; toEnd says that the tail is empty (the SSH
\* pattern) and not (?:\/.*)?.
MatchAt(url, host, i, toEnd) ==
    IF i + Len(host) - 1 > Len(url) \/ SubSeq(url, i, i + Len(host) - 1) # host
    THEN NoMatch
    ELSE LET rest == Substring(url, i + Len(host) - 1)
             owner == NonSlashRun(rest)
             afterOwner == Substring(rest, Len(owner))
             seg == IF afterOwner = <<>> THEN <<>> ELSE NonSlashRun(Tail(afterOwner))
             tail == IF afterOwner = <<>> THEN <<>> ELSE Substring(afterOwner, 1 + Len(seg))
         IN  IF owner = <<>> \/ afterOwner = <<>> \/ seg = <<>> \/ (toEnd /\ tail # <<>>)
             THEN NoMatch
             ELSE [matched |-> TRUE, owner |-> owner, repo |-> RepoOfSegment(seg)]

\* url.match(pattern): the leftmost position at which the pattern matches.
MatchPattern(url, host, toEnd) ==
    LET hits == {i \in 1..Len(url) : MatchAt(url, host, i, toEnd).matched}
    IN  IF hits = {} THEN NoMatch
        ELSE MatchAt(url, host, CHOOSE i \in hits : \A j \in hits : i <= j, toEnd)

\* matched = FALSE stands for the thrown "Invalid GitHub repository URL".
parseGitHubUrl(url) ==
    IF MatchPattern(url, HostSlash, FALSE).matched
    THEN MatchPattern(url, HostSlash, FALSE)
    ELSE MatchPattern(url, HostColon, TRUE)

\* ------------------------------------------------------------------------
\* Reference resolver
\* ------------------------------------------------------------------------

\* A remote call, as logged: which operation, on which ref, sha and page.
Call(api, ref, sha, page) == [api |-> api, ref |-> ref, sha |-> sha, page |-> page]

\* The provider's answers for one label: <<commit lookup, tags/<label>,
\* heads/<label>>>, each the sha returned or 0 when the lookup fails.
NoSha == 0

\* The lookups in another order: the tag first, then the commit.
getCommitSha_TagFirst(answers, tagOrCommit) ==
    LET c1 == Call("getCommit", tagOrCommit, NoSha, 0)
        c2 == Call("getRef.tags", tagOrCommit, NoSha, 0)
        c3 == Call("getRef.heads", tagOrCommit, NoSha, 0)
    IN  IF answers[2] # NoSha
        THEN [ok |-> TRUE, sha |-> answers[2], calls |-> <<c2>>, label |-> tagOrCommit]
        ELSE IF answers[1] # NoSha
        THEN [ok |-> TRUE, sha |-> answers[1], calls |-> <<c2, c1>>, label |-> tagOrCommit]
        ELSE IF answers[3] # NoSha
        THEN [ok |-> TRUE, sha |-> answers[3], calls |-> <<c2, c1, c3>>, label |-> tagOrCommit]
        ELSE [ok |-> FALSE, sha |-> NoSha, calls |-> <<c2, c1, c3>>, label |-> tagOrCommit]

getCommitSha(answers, tagOrCommit) ==
    LET c1 == Call("getCommit", tagOrCommit, NoSha, 0)
        c2 == Call("getRef.tags", tagOrCommit, NoSha, 0)
        c3 == Call("getRef.heads", tagOrCommit, NoSha, 0)
    IN  IF answers[1] # NoSha
        THEN [ok |-> TRUE, sha |-> answers[1], calls |-> <<c1>>, label |-> tagOrCommit]
        ELSE IF answers[2] # NoSha
        THEN [ok |-> TRUE, sha |-> answers[2], calls |-> <<c1, c2>>, label |-> tagOrCommit]
        ELSE IF answers[3] # NoSha
        THEN [ok |-> TRUE, sha |-> answers[3], calls |-> <<c1, c2, c3>>, label |-> tagOrCommit]
        ELSE [ok |-> FALSE, sha |-> NoSha, calls |-> <<c1, c2, c3>>, label |-> tagOrCommit]

\* ------------------------------------------------------------------------
\* Bounds and program constants
\* ------------------------------------------------------------------------

\* The longest history the provider lists.
MaxCommits == 12

\* streamCommitsBetween: const BATCH_SIZE = 10
BATCH_SIZE == 10

\* getCommitsBetweenREST: const perPage = 100
perPage == 100

\* getCommitsBetweenREST: const intersectionPerPage = 1, const maxChecks = 1
intersectionPerPage == 1

maxChecks == 1

Min(a, b) == IF a < b THEN a ELSE b

\* ------------------------------------------------------------------------
\* The caller's options and the provider
\* ------------------------------------------------------------------------

Labels == {"a", "b", "HEAD", "HEAD~1"}

\* options.from / options.to: "" is an absent reference.
NoRef == ""

\* The truthiness of options.from / options.to.
RefGiven(ref) == ref # NoRef

ValidUrl ==
    <<"g", "i", "t", "h", "u", "b", ".", "c", "o", "m", "/", "o", "/", "r">>

BadUrl == <<"x", ".", "c", "o", "m", "/", "o", "/", "r">>

Urls == {ValidUrl, BadUrl}

TargetDirs == {<<>>, <<"s">>}

ExcludeOptions == {<<>>, <<"x">>}

RefPairs ==
    {<<NoRef, NoRef>>, <<NoRef, "a">>, <<"a", NoRef>>, <<"a", "a">>, <<"a", "b">>}

OptionSets ==
    {[repoUrl |-> u, from |-> ft[1], to |-> ft[2], targetDir |-> t, excludeSubPaths |-> e] :
        u \in Urls, ft \in RefPairs, t \in TargetDirs, e \in ExcludeOptions}

\* The commit ids labels resolve to: one inside the listed history when it
\* is long enough, one outside it.
RefShas == {3, 50}

\* What a provider may answer for a label; <<>> is a label not asked yet.
RefAnswers == {<<NoSha, NoSha, NoSha>>} \cup {<<s, NoSha, NoSha>> : s \in RefShas}

\* The listed history of n commits, newest first: ids 1..n.
History(n) == [i \in 1..n |-> i]

\* What the one-commit listing from baseSha may hold: nothing, a commit of
\* the head-side listing, a commit outside it.
IntersectAnswers == {<<>>, <<2>>, <<60>>}

\* Changed files of the commits, by pattern.
InTarget == <<"s", "/", "a">>

InExcluded == <<"s", "/", "x", "/", "a">>

Outside == <<"d", "/", "a">>

FilePatterns == {1, 2, 3, 4}

\* getCommit(sha) fails for these commits.
LookupFails(pattern, sha) ==
    CASE pattern = 2 -> sha % 4 = 3
      [] pattern = 4 -> sha > BATCH_SIZE
      [] OTHER -> FALSE

FilesOf(pattern, sha) ==
    CASE pattern = 1 -> <<InTarget>>
      [] pattern = 2 ->
            CASE sha % 4 = 0 -> <<InExcluded>>
              [] sha % 4 = 1 -> <<InTarget, InExcluded>>
              [] OTHER -> <<Outside>>
      [] pattern = 3 -> IF sha <= BATCH_SIZE THEN <<Outside>> ELSE <<InTarget>>
      [] OTHER -> <<InTarget>>

\* getFilesChangedInCommit: the file names, [] when the lookup fails.
getFilesChangedInCommit(pattern, sha) ==
    IF LookupFails(pattern, sha) THEN <<>> ELSE FilesOf(pattern, sha)

\* One page of a listing: listCommits(per_page, page).
PageOf(listing, per, page) ==
    SubSeq(listing, (page - 1) * per + 1, Min(page * per, Len(listing)))

\* ------------------------------------------------------------------------
\* State
\* ------------------------------------------------------------------------

VARIABLES
    opts,       \* the options of the request
    prov,       \* the provider: the answers it has given so far
    run,        \* the invocation in progress: locals, callbacks' sink, result
    prev,       \* the invocation that ran before it on the same options
    fFiles, fTargetDir, fExclude, fResult, fDone,   \* a filter evaluation
    legacy,     \* the graph/linear variants: their runs and their provider
    pure        \* one call of a function of the library: argument and value

vars == <<opts, prov, run, prev, fFiles, fTargetDir, fExclude, fResult, fDone, legacy, pure>>

filterVars == <<fFiles, fTargetDir, fExclude, fResult, fDone>>

runVars == <<opts, prov, run, prev>>

NoResult ==
    [returned |-> FALSE, success |-> FALSE, commits |-> <<>>, totalCommits |-> -1,
     warning |-> "", error |-> "", errorLabel |-> "", elapsedTime |-> FALSE,
     repository |-> FALSE, refs |-> FALSE, apiUsed |-> "",
     total |-> -1, processed |-> -1, skipped |-> -1]

NoRun ==
    [mode |-> "none", transport |-> "plain", cbThrows |-> "none", pc |-> "idle",
     finalFrom |-> NoRef, finalTo |-> NoRef, warningMessage |-> "",
     fromSha |-> NoSha, toSha |-> NoSha,
     page |-> 0, allCommits |-> <<>>, listCommitShas |-> {}, foundBase |-> FALSE,
     intersectionPage |-> 0, checkedCount |-> 0, boundaryNotice |-> FALSE,
     fetched |-> <<>>, commits |-> <<>>, i |-> 0, processedCommits |-> <<>>,
     calls |-> <<>>, records |-> <<>>, batches |-> <<>>, result |-> NoResult,
     streamState |-> "readable", isCancelled |-> FALSE, isControllerClosed |-> FALSE,
     enqueueCalls |-> 0, atCancel |-> <<>>, routeDone |-> FALSE, escaped |-> FALSE]

NoProvider ==
    [refs |-> [l \in Labels |-> <<>>],
     fetch |-> [asked |-> FALSE, fails |-> FALSE, n |-> 0],
     isect |-> [asked |-> FALSE, fails |-> FALSE, data |-> <<>>],
     pattern |-> 0]

\* A run of a graph/linear variant: getCommitsBetween of the earlier core
\* ("core") or the command-line program ("cli").
LegacyNoResult ==
    [returned |-> FALSE, success |-> FALSE, commits |-> <<>>, apiUsed |-> "",
     error |-> "", exitCode |-> 0]

LegacyNoRun ==
    [program |-> "none", restOnly |-> FALSE, format |-> "human", pc |-> "idle",
     page |-> 0, allCommits |-> <<>>, graphFailed |-> FALSE, notice |-> FALSE,
     calls |-> <<>>, expressions |-> <<>>, result |-> LegacyNoResult]

\* What the provider answers to a legacy run: which reference cannot be
\* resolved, the length n of the head's history, the place b of the base in
\* it (0: not in it), the graph page that fails (0: none), whether
\* compareCommits fails, and what the repository's HEAD is: the head commit
\* itself ("to"), one commit ahead of it, or a branch that diverged from it.
LegacyNoProvider ==
    [asked |-> FALSE, refFails |-> "none", n |-> 0, b |-> 0, graphFailsAt |-> 0,
     restFails |-> FALSE, head |-> "to"]

LegacyIdle == legacy = [cur |-> LegacyNoRun, last |-> LegacyNoRun, prov |-> LegacyNoProvider]

\* No function call under way.
NoCall == [fn |-> "none", arg |-> <<>>, out |-> <<>>, done |-> FALSE]

PureIdle == pure = NoCall

RefAnswerFor(label) ==
    IF prov.refs[label] = <<>> THEN RefAnswers ELSE {prov.refs[label]}

FetchAnswers ==
    IF prov.fetch.asked THEN {prov.fetch}
    ELSE {[asked |-> TRUE, fails |-> TRUE, n |-> 0]}
         \cup {[asked |-> TRUE, fails |-> FALSE, n |-> n] : n \in 0..MaxCommits}

IsectAnswers ==
    IF prov.isect.asked THEN {prov.isect}
    ELSE {[asked |-> TRUE, fails |-> TRUE, data |-> <<>>]}
         \cup {[asked |-> TRUE, fails |-> FALSE, data |-> d] : d \in IntersectAnswers}

PatternAnswers ==
    IF prov.pattern # 0 THEN {prov.pattern} ELSE FilePatterns

\* ------------------------------------------------------------------------
\* The callbacks and the stream controller
\* ------------------------------------------------------------------------

\* controller.enqueue(record): throws unless the stream is readable.
CanEnqueue(s) == s.streamState = "readable"

Enqueued(s, type) == [s EXCEPT !.records = Append(@, type)]

\* One call of controller.enqueue: the record is queued, or the call throws.
ControllerEnqueue(s, type) ==
    LET called == [s EXCEPT !.enqueueCalls = @ + 1]
    IN  IF CanEnqueue(s) THEN [threw |-> FALSE, s |-> Enqueued(called, type)]
        ELSE [threw |-> TRUE, s |-> called]

\* The /stream route's safeEnqueue.
safeEnqueue(s, type) ==
    IF ~s.isControllerClosed /\ ~s.isCancelled
    THEN LET e == ControllerEnqueue(s, type)
         IN  IF e.threw THEN [e.s EXCEPT !.isControllerClosed = TRUE] ELSE e.s
    ELSE s

\* The /stream route's safeClose.
safeClose(s) ==
    IF ~s.isControllerClosed /\ ~s.isCancelled
    THEN IF CanEnqueue(s)
         THEN [s EXCEPT !.streamState = "closed", !.isControllerClosed = TRUE]
         ELSE [s EXCEPT !.isControllerClosed = TRUE]
    ELSE s

\* onProgress(status) as the transport defines it; the result says whether it
\* threw.
onProgress(s) ==
    CASE s.transport = "ndjson" ->
            [threw |-> FALSE,
             s |-> IF s.isControllerClosed \/ s.isCancelled THEN s
                   ELSE safeEnqueue(s, "progress")]
      [] s.transport \in {"sse", "ndjsonEarly"} -> ControllerEnqueue(s, "progress")
      [] OTHER ->
            IF s.cbThrows \in {"progress", "both"} THEN [threw |-> TRUE, s |-> s]
            ELSE [threw |-> FALSE, s |-> Enqueued(s, "progress")]

\* onCommitBatch(commits, progress) as the transport defines it.
onCommitBatch(s) ==
    CASE s.transport = "ndjson" ->
            [threw |-> FALSE,
             s |-> IF s.isControllerClosed \/ s.isCancelled THEN s
                   ELSE safeEnqueue(s, "commits")]
      [] s.transport \in {"sse", "ndjsonEarly"} -> ControllerEnqueue(s, "commits")
      [] OTHER ->
            IF s.cbThrows \in {"batch", "both"} THEN [threw |-> TRUE, s |-> s]
            ELSE [threw |-> FALSE, s |-> Enqueued(s, "commits")]

\* streamCommitsBetween's safeProgress: the callback's exception is swallowed.
\* getCommitsBetween passes no progress callback.
safeProgress(s) == IF s.mode = "get" THEN s ELSE onProgress(s).s

RECURSIVE safeProgressTimes(_, _)
safeProgressTimes(s, n) == IF n = 0 THEN s ELSE safeProgressTimes(safeProgress(s), n - 1)

\* The batch handed over with its own size as the processed count.
SendBatch_OwnCount(s, batchResults, processedCount) ==
    LET handed == [s EXCEPT !.batches = Append(@, [commits |-> batchResults,
                                                  processed |-> Len(batchResults),
                                                  total |-> Len(s.commits)])]
    IN  onCommitBatch(handed).s

\* The try/catch around onCommitBatch: the batch is handed over, an exception
\* of the callback is swallowed.
SendBatch(s, batchResults, processedCount) ==
    LET handed == [s EXCEPT !.batches = Append(@, [commits |-> batchResults,
                                                  processed |-> processedCount,
                                                  total |-> Len(s.commits)])]
    IN  onCommitBatch(handed).s

\* ------------------------------------------------------------------------
\* getCommitsBetween / streamCommitsBetween (src/lib/core.js), from one
\* awaited remote call to the next
\* ------------------------------------------------------------------------

LoggedCalls(s, cs) == [s EXCEPT !.calls = @ \o cs]

\* The catch block parsing the URL again without a guard of its own: on an
\* invalid URL the exception leaves the function and nothing is returned.
FailWith_Rethrow(s, error, label) ==
    IF ~parseGitHubUrl(opts.repoUrl).matched
    THEN [s EXCEPT !.pc = "done", !.result = NoResult]
    ELSE [s EXCEPT !.pc = "done",
                   !.result = [NoResult EXCEPT !.returned = TRUE, !.success = FALSE,
                                               !.error = error, !.errorLabel = label,
                                               !.elapsedTime = TRUE, !.repository = TRUE]]

\* The catch block of both entry points: a failure result, never a throw.
FailWith(s, error, label) ==
    [s EXCEPT !.pc = "done",
              !.result = [NoResult EXCEPT !.returned = TRUE, !.success = FALSE,
                                          !.error = error, !.errorLabel = label,
                                          !.elapsedTime = TRUE,
                                          !.repository = parseGitHubUrl(opts.repoUrl).matched]]

\* "latest commit only": no from given.
LatestOnly ==
    (~RefGiven(opts.from) /\ ~RefGiven(opts.to)) \/ (~RefGiven(opts.from) /\ RefGiven(opts.to))

HasCriteria == Truthy(opts.targetDir) \/ Truthy(opts.excludeSubPaths)

\* The defaults with a lone `to` taken as the start of the range.
PartialInput_ToAsStart(from, to) ==
    IF ~RefGiven(from) /\ ~RefGiven(to) THEN <<"HEAD~1", "HEAD", "noVersion">>
    ELSE IF ~RefGiven(from) /\ RefGiven(to) THEN <<to, "HEAD", "noStartingVersion">>
    ELSE IF RefGiven(from) /\ ~RefGiven(to) THEN <<from, "HEAD", "noTargetVersion">>
    ELSE <<from, to, "">>

\* The partial-input defaults: <<finalFrom, finalTo, warningMessage>>.
PartialInput(from, to) ==
    IF ~RefGiven(from) /\ ~RefGiven(to) THEN <<"HEAD~1", "HEAD", "noVersion">>
    ELSE IF ~RefGiven(from) /\ RefGiven(to) THEN <<"HEAD~1", "HEAD", "noStartingVersion">>
    ELSE IF RefGiven(from) /\ ~RefGiven(to) THEN <<from, "HEAD", "noTargetVersion">>
    ELSE <<from, to, "">>

\* From the call to the first awaited getCommitSha.
Begin(s) ==
    LET s1 == safeProgress(s)
        pi == PartialInput(opts.from, opts.to)
        s2 == [s1 EXCEPT !.finalFrom = pi[1], !.finalTo = pi[2], !.warningMessage = pi[3]]
        s3 == IF pi[3] # "" THEN safeProgress(s2) ELSE s2
    IN  IF ~parseGitHubUrl(opts.repoUrl).matched
        THEN FailWith(s1, "InvalidUrl", "")
        ELSE [safeProgress(s3) EXCEPT !.pc = "awaitFromSha"]

\* getCommitsBetweenREST up to its first awaited request.
BeginFetch(s) ==
    LET s1 == safeProgressTimes(s, 3)
    IN  IF Truthy(opts.targetDir)
        THEN [LoggedCalls(safeProgressTimes(s1, 2), <<Call("listCommits", "", s.toSha, 1)>>)
                EXCEPT !.pc = "awaitPage", !.page = 1]
        ELSE [LoggedCalls(safeProgress(s1), <<Call("compareCommits", "", s.toSha, 0)>>)
                EXCEPT !.pc = "awaitCompare"]

\* The same-commit check left out: the run goes on to the range fetch.
SameShaResult_NoShortCircuit(s) == BeginFetch(s)

\* The result when both references resolve to the same commit.
SameShaResult(s) ==
    LET s1 == safeProgress(s)
    IN  [s1 EXCEPT !.pc = "done",
                   !.result = [NoResult EXCEPT !.returned = TRUE, !.success = TRUE,
                                               !.totalCommits = 0,
                                               !.warning = "sameVersion",
                                               !.elapsedTime = TRUE,
                                               !.repository = TRUE, !.refs = TRUE,
                                               !.apiUsed = IF s.mode = "get" THEN "rest" ELSE "",
                                               !.total = IF s.mode = "get" THEN -1 ELSE 0,
                                               !.processed = IF s.mode = "get" THEN -1 ELSE 0]]

\* The success result of getCommitsBetween.
GetResult(s, commits) ==
    [s EXCEPT !.pc = "done",
              !.result = [NoResult EXCEPT !.returned = TRUE, !.success = TRUE,
                                          !.commits = commits,
                                          !.totalCommits = Len(commits),
                                          !.warning = s.warningMessage,
                                          !.elapsedTime = TRUE,
                                          !.repository = TRUE, !.refs = TRUE,
                                          !.apiUsed = "rest"]]

\* The start of one batch: its progress line, then the first file lookup.
StartBatch(s) == [safeProgress(s) EXCEPT !.pc = "awaitFiles"]

\* After getCommitsBetweenREST has returned its commits.
AfterFetch(s, fetched) ==
    LET commits == IF LatestOnly THEN SubSeq(fetched, 1, Min(1, Len(fetched))) ELSE fetched
    IN  IF s.mode = "get"
        THEN IF HasCriteria
             THEN [s EXCEPT !.pc = "awaitFilter", !.fetched = fetched, !.commits = commits]
             ELSE GetResult([s EXCEPT !.fetched = fetched, !.commits = commits], commits)
        ELSE LET s1 == safeProgress(s)
                 s2 == [(IF LatestOnly THEN safeProgress(s1) ELSE s1)
                           EXCEPT !.fetched = fetched, !.commits = commits]
             IN  IF Len(commits) = 0
                 THEN [safeProgress(s2) EXCEPT
                          !.pc = "done",
                          !.result = [NoResult EXCEPT !.returned = TRUE, !.success = TRUE,
                                                      !.totalCommits = 0,
                                                      !.total = 0, !.processed = 0,
                                                      !.warning = s.warningMessage]]
                 ELSE StartBatch([safeProgress(s2) EXCEPT !.i = 0])

\* The return of the path-scoped branch of getCommitsBetweenREST.
FinishREST(s, allCommits) == AfterFetch(safeProgress(s), allCommits)

\* Index of the first element of data equal to sha, 0 when there is none.
IndexOf(data, sha) ==
    IF \E k \in 1..Len(data) : data[k] = sha
    THEN CHOOSE k \in 1..Len(data) : data[k] = sha /\ \A j \in 1..(k - 1) : data[j] # sha
    ELSE 0

Elements(data) == {data[k] : k \in 1..Len(data)}

\* The end of the head-side walk: the intersection search when the base was
\* not met and something was listed, the return otherwise.
EndWalk(s) ==
    IF ~s.foundBase /\ s.listCommitShas # {}
    THEN [LoggedCalls(safeProgress(s), <<Call("listCommits.base", "", s.fromSha, 1)>>)
            EXCEPT !.pc = "awaitIntersect", !.intersectionPage = 1, !.checkedCount = 0]
    ELSE FinishREST(s, s.allCommits)

\* The scan going on to the next page after a page that was not full.
ScanPage_PastShortPage(s, data) ==
    LET at == IndexOf(data, s.fromSha)
        scanned == IF at = 0 THEN data ELSE SubSeq(data, 1, at)
        added == IF at = 0 THEN data ELSE SubSeq(data, 1, at - 1)
        s1 == [s EXCEPT !.listCommitShas = @ \cup Elements(scanned),
                        !.allCommits = @ \o added,
                        !.foundBase = (at # 0)]
    IN  IF Len(data) = 0 THEN EndWalk(s)
        ELSE IF s1.foundBase THEN EndWalk(s1)
        ELSE [LoggedCalls(safeProgress(s1), <<Call("listCommits", "", s.toSha, s.page + 1)>>)
                EXCEPT !.page = s.page + 1]

\* The scan adding the base commit before it stops.
ScanPage_AddsBase(s, data) ==
    LET at == IndexOf(data, s.fromSha)
        scanned == IF at = 0 THEN data ELSE SubSeq(data, 1, at)
        s1 == [s EXCEPT !.listCommitShas = @ \cup Elements(scanned),
                        !.allCommits = @ \o scanned,
                        !.foundBase = (at # 0)]
    IN  IF Len(data) = 0 THEN EndWalk(s)
        ELSE IF s1.foundBase \/ Len(data) < perPage THEN EndWalk(s1)
        ELSE [LoggedCalls(safeProgress(s1), <<Call("listCommits", "", s.toSha, s.page + 1)>>)
                EXCEPT !.page = s.page + 1]

\* One page of the head-side listing has arrived.
ScanPage(s, data) ==
    LET at == IndexOf(data, s.fromSha)
        scanned == IF at = 0 THEN data ELSE SubSeq(data, 1, at)
        added == IF at = 0 THEN data ELSE SubSeq(data, 1, at - 1)
        s1 == [s EXCEPT !.listCommitShas = @ \cup Elements(scanned),
                        !.allCommits = @ \o added,
                        !.foundBase = (at # 0)]
    IN  IF Len(data) = 0 THEN EndWalk(s)
        ELSE IF s1.foundBase \/ Len(data) < perPage THEN EndWalk(s1)
        ELSE [LoggedCalls(safeProgress(s1), <<Call("listCommits", "", s.toSha, s.page + 1)>>)
                EXCEPT !.page = s.page + 1]

\* allCommits up to and with the intersection commit.
BeforeIntersection_Inclusive(allCommits, intersectionSha) ==
    LET at == IndexOf(allCommits, intersectionSha)
    IN  IF at = 0 THEN allCommits ELSE SubSeq(allCommits, 1, at)

\* allCommits before the intersection commit.
BeforeIntersection(allCommits, intersectionSha) ==
    LET at == IndexOf(allCommits, intersectionSha)
    IN  IF at = 0 THEN allCommits ELSE SubSeq(allCommits, 1, at - 1)

\* The end of a search that found nothing: the console line, and the
\* progress message "No intersection found within N commits from base",
\* which reaches the caller when a progress callback was passed.
NoIntersection(s) == [safeProgress(s) EXCEPT !.boundaryNotice = (s.mode # "get")]

\* The search without its limit of maxChecks: it goes on page after page
\* until an id is shared or the listing ends.
ScanIntersection_NoLimit(s, data) ==
    LET at == IF \E k \in 1..Len(data) : data[k] \in s.listCommitShas
              THEN CHOOSE k \in 1..Len(data) :
                      /\ data[k] \in s.listCommitShas
                      /\ \A j \in 1..(k - 1) : data[j] \notin s.listCommitShas
              ELSE 0
        checkedCount == s.checkedCount + (IF at = 0 THEN Len(data) ELSE at)
        s1 == [s EXCEPT !.checkedCount = checkedCount]
    IN  IF Len(data) = 0
        THEN FinishREST(NoIntersection(s), s.allCommits)
        ELSE IF at # 0
        THEN FinishREST(safeProgressTimes([s1 EXCEPT !.foundBase = TRUE,
                                                     !.allCommits = BeforeIntersection(@, data[at])], 3),
                        BeforeIntersection(s.allCommits, data[at]))
        ELSE IF Len(data) < intersectionPerPage
        THEN FinishREST(NoIntersection(s1), s.allCommits)
        ELSE [LoggedCalls(s1, <<Call("listCommits.base", "", s.fromSha, s.intersectionPage + 1)>>)
                EXCEPT !.intersectionPage = s.intersectionPage + 1]

\* One page of the listing from baseSha has arrived.
ScanIntersection(s, data) ==
    LET checked == SubSeq(data, 1, Min(Len(data), maxChecks - s.checkedCount))
        at == IF \E k \in 1..Len(checked) : checked[k] \in s.listCommitShas
              THEN CHOOSE k \in 1..Len(checked) :
                      /\ checked[k] \in s.listCommitShas
                      /\ \A j \in 1..(k - 1) : checked[j] \notin s.listCommitShas
              ELSE 0
        checkedCount == s.checkedCount + (IF at = 0 THEN Len(checked) ELSE at)
        found == at # 0
        s1 == [s EXCEPT !.checkedCount = checkedCount]
    IN  IF Len(data) = 0
        THEN FinishREST(NoIntersection(s), s.allCommits)
        ELSE IF found
        THEN FinishREST(safeProgressTimes([s1 EXCEPT !.foundBase = TRUE,
                                                     !.allCommits = BeforeIntersection(@, checked[at])], 3),
                        BeforeIntersection(s.allCommits, checked[at]))
        ELSE IF Len(data) < intersectionPerPage \/ checkedCount >= maxChecks
        THEN FinishREST(NoIntersection(s1), s.allCommits)
        ELSE [LoggedCalls(s1, <<Call("listCommits.base", "", s.fromSha, s.intersectionPage + 1)>>)
                EXCEPT !.intersectionPage = s.intersectionPage + 1]

\* The file lookups of a run of commits, in order.
LookupCalls(commits) == [k \in 1..Len(commits) |-> Call("getCommit.files", "", commits[k], 0)]

\* A commit whose lookup failed dropped whatever the criteria.
Keeps_DropsFailed(pattern, sha) ==
    IF LookupFails(pattern, sha) THEN FALSE
    ELSE IF HasCriteria
    THEN shouldIncludeCommit(FilesOf(pattern, sha), opts.targetDir, opts.excludeSubPaths)
    ELSE TRUE

\* Whether a fetched commit is kept: its files are looked up (the fetch
\* leaves files empty), then filtered when criteria are given.
Keeps(pattern, sha) ==
    IF HasCriteria
    THEN shouldIncludeCommit(getFilesChangedInCommit(pattern, sha), opts.targetDir, opts.excludeSubPaths)
    ELSE TRUE

\* filterCommitsByDirectory, then the result.
FilterAndReturn(s, pattern) ==
    LET kept == SelectSeq(s.commits, LAMBDA sha : Keeps(pattern, sha))
    IN  GetResult(LoggedCalls(s, LookupCalls(s.commits)), kept)

\* The batch cut one commit short: slice(i, i + BATCH_SIZE - 1).
BatchOf_OneShort(commits, i) == SubSeq(commits, i + 1, Min(i + BATCH_SIZE - 1, Len(commits)))

\* The commits of the batch that starts after commit i.
BatchOf(commits, i) == SubSeq(commits, i + 1, Min(i + BATCH_SIZE, Len(commits)))

\* The success result of streamCommitsBetween.
StreamResult(s) ==
    [safeProgress(s) EXCEPT
        !.pc = "done",
        !.result = [NoResult EXCEPT !.returned = TRUE, !.success = TRUE,
                                    !.totalCommits = Len(s.processedCommits),
                                    !.total = Len(s.commits),
                                    !.processed = Len(s.processedCommits),
                                    !.skipped = Len(s.commits) - Len(s.processedCommits),
                                    !.warning = s.warningMessage,
                                    !.elapsedTime = TRUE,
                                    !.repository = TRUE, !.refs = TRUE,
                                    !.apiUsed = "REST"]]

\* The batch loop without the try/catch around onCommitBatch: the callback's
\* exception reaches the catch block of streamCommitsBetween.
ProcessBatch_Unguarded(s, pattern) ==
    LET batch == BatchOf(s.commits, s.i)
        batchResults == SelectSeq(batch, LAMBDA sha : Keeps(pattern, sha))
        s1 == [LoggedCalls(s, LookupCalls(batch)) EXCEPT !.processedCommits = @ \o batchResults]
        s2 == IF Len(batchResults) > 0
              THEN SendBatch(s1, batchResults, Len(s1.processedCommits))
              ELSE s1
    IN  IF Len(batchResults) > 0 /\ onCommitBatch(s1).threw
        THEN FailWith(s2, "CallbackFailed", "")
        ELSE IF s.i + BATCH_SIZE < Len(s.commits)
        THEN [s2 EXCEPT !.pc = "awaitDelay"]
        ELSE StreamResult(s2)

\* One batch whose results go to onCommitBatch even when there are none.
ProcessBatch_SendsEmpty(s, pattern) ==
    LET batch == BatchOf(s.commits, s.i)
        batchResults == SelectSeq(batch, LAMBDA sha : Keeps(pattern, sha))
        s1 == [LoggedCalls(s, LookupCalls(batch)) EXCEPT !.processedCommits = @ \o batchResults]
        s2 == SendBatch(s1, batchResults, Len(s1.processedCommits))
    IN  IF s.i + BATCH_SIZE < Len(s.commits)
        THEN [s2 EXCEPT !.pc = "awaitDelay"]
        ELSE StreamResult(s2)

\* One batch: look up, filter and parse its commits, hand the batch over,
\* then pause before the next batch or finish.
ProcessBatch(s, pattern) ==
    LET batch == BatchOf(s.commits, s.i)
        batchResults == SelectSeq(batch, LAMBDA sha : Keeps(pattern, sha))
        s1 == [LoggedCalls(s, LookupCalls(batch)) EXCEPT !.processedCommits = @ \o batchResults]
        s2 == IF Len(batchResults) > 0
              THEN SendBatch(s1, batchResults, Len(s1.processedCommits))
              ELSE s1
    IN  IF s.i + BATCH_SIZE < Len(s.commits)
        THEN [s2 EXCEPT !.pc = "awaitDelay"]
        ELSE StreamResult(s2)

\* ------------------------------------------------------------------------
\* Actions
\* ------------------------------------------------------------------------

\* A caller invokes getCommitsBetween(options), or streamCommitsBetween with
\* callbacks of its own; a second invocation repeats the request the other
\* way.
StartRun(mode, cb) ==
    /\ \/ run.pc = "idle" /\ run.mode = "none"
       \/ run.pc = "done" /\ prev.mode = "none" /\ run.mode # mode /\ run.transport = "plain"
    /\ mode = "get" => cb = "none"
    /\ prev' = IF run.pc = "done" THEN run ELSE prev
    /\ run' = Begin([NoRun EXCEPT !.mode = mode, !.cbThrows = cb])
    /\ UNCHANGED <<opts, prov>>
    /\ UNCHANGED <<filterVars, legacy, pure>>

\* await getCommitSha(octokit, owner, repo, finalFrom)
ResolveFrom ==
    /\ run.pc = "awaitFromSha"
    /\ \E answers \in RefAnswerFor(run.finalFrom) :
          LET r == getCommitSha(answers, run.finalFrom)
              s1 == LoggedCalls(run, r.calls)
          IN  /\ prov' = [prov EXCEPT !.refs[run.finalFrom] = answers]
              /\ run' = IF r.ok
                        THEN [s1 EXCEPT !.fromSha = r.sha, !.pc = "awaitToSha"]
                        ELSE FailWith(s1, "RefNotFound", r.label)
    /\ UNCHANGED <<opts, prev>>
    /\ UNCHANGED <<filterVars, legacy, pure>>

\* await getCommitSha(octokit, owner, repo, finalTo), the same-commit check,
\* then the start of the range fetch.
ResolveTo ==
    /\ run.pc = "awaitToSha"
    /\ \E answers \in RefAnswerFor(run.finalTo) :
          LET r == getCommitSha(answers, run.finalTo)
              s1 == LoggedCalls(run, r.calls)
              s2 == [s1 EXCEPT !.toSha = r.sha]
          IN  /\ prov' = [prov EXCEPT !.refs[run.finalTo] = answers]
              /\ run' = IF ~r.ok THEN FailWith(s1, "RefNotFound", r.label)
                        ELSE IF s2.fromSha = s2.toSha THEN SameShaResult(s2)
                        ELSE BeginFetch(s2)
    /\ UNCHANGED <<opts, prev>>
    /\ UNCHANGED <<filterVars, legacy, pure>>

\* await octokit.rest.repos.listCommits({sha: headSha, path, per_page, page})
PageStep ==
    /\ run.pc = "awaitPage"
    /\ \E f \in FetchAnswers :
          /\ prov' = [prov EXCEPT !.fetch = f]
          /\ run' = IF f.fails THEN FailWith(run, "FetchFailed", "")
                    ELSE ScanPage(run, PageOf(History(f.n), perPage, run.page))
    /\ UNCHANGED <<opts, prev>>
    /\ UNCHANGED <<filterVars, legacy, pure>>

\* await octokit.rest.repos.listCommits({sha: baseSha, path, per_page: 1, page})
IntersectStep ==
    /\ run.pc = "awaitIntersect"
    /\ \E a \in IsectAnswers :
          /\ prov' = [prov EXCEPT !.isect = a]
          /\ run' = IF a.fails THEN FailWith(run, "FetchFailed", "")
                    ELSE ScanIntersection(run, PageOf(a.data, intersectionPerPage, run.intersectionPage))
    /\ UNCHANGED <<opts, prev>>
    /\ UNCHANGED <<filterVars, legacy, pure>>

\* await octokit.rest.repos.compareCommits({base, head})
CompareStep ==
    /\ run.pc = "awaitCompare"
    /\ \E f \in FetchAnswers :
          /\ prov' = [prov EXCEPT !.fetch = f]
          /\ run' = IF f.fails THEN FailWith(run, "FetchFailed", "")
                    ELSE FinishREST(run, History(f.n))
    /\ UNCHANGED <<opts, prev>>
    /\ UNCHANGED <<filterVars, legacy, pure>>

\* await filterCommitsByDirectory(...), then the result of getCommitsBetween.
FilterStep ==
    /\ run.pc = "awaitFilter"
    /\ \E pattern \in (IF run.commits = <<>> THEN {prov.pattern} ELSE PatternAnswers) :
          /\ prov' = [prov EXCEPT !.pattern = pattern]
          /\ run' = FilterAndReturn(run, pattern)
    /\ UNCHANGED <<opts, prev>>
    /\ UNCHANGED <<filterVars, legacy, pure>>

\* The awaited file lookups of one batch of streamCommitsBetween.
BatchStep ==
    /\ run.pc = "awaitFiles"
    /\ \E pattern \in PatternAnswers :
          /\ prov' = [prov EXCEPT !.pattern = pattern]
          /\ run' = ProcessBatch(run, pattern)
    /\ UNCHANGED <<opts, prev>>
    /\ UNCHANGED <<filterVars, legacy, pure>>

\* await new Promise((resolve) => setTimeout(resolve, 100)), then the next batch.
DelayStep ==
    /\ run.pc = "awaitDelay"
    /\ run' = StartBatch([run EXCEPT !.i = run.i + BATCH_SIZE])
    /\ UNCHANGED <<opts, prov, prev>>
    /\ UNCHANGED <<filterVars, legacy, pure>>

FilterIdle ==
    /\ fFiles = <<>>
    /\ fTargetDir = <<>>
    /\ fExclude = <<>>
    /\ fResult = FALSE
    /\ fDone = FALSE

Init ==
    /\ opts \in OptionSets
    /\ prov = NoProvider
    /\ run = NoRun
    /\ prev = NoRun
    /\ FilterIdle
    /\ LegacyIdle
    /\ PureIdle

Next ==
    \/ StartRun("get", "none")
    \/ \E cb \in {"none", "progress", "batch", "both"} : StartRun("stream", cb)
    \/ ResolveFrom
    \/ ResolveTo
    \/ PageStep
    \/ IntersectStep
    \/ CompareStep
    \/ FilterStep
    \/ BatchStep
    \/ DelayStep

Spec == Init /\ [][Next]_vars

\* ------------------------------------------------------------------------
\* The stream routes: the NDJSON route /api/git-diff/stream with its cancel
\* handling ("ndjson") and without it ("ndjsonEarly"), and the SSE route
\* /api/git-diff?stream=true ("sse")
\* ------------------------------------------------------------------------

RouteOptionSets == {o \in OptionSets : RefGiven(o.from) /\ RefGiven(o.to)}

\* start(controller): the first record, then streamCommitsBetween up to its
\* first await.
RouteStart(transport) ==
    /\ run.pc = "idle" /\ run.mode = "none"
    /\ LET s0 == [NoRun EXCEPT !.mode = "stream", !.transport = transport]
           s1 == CASE transport = "ndjson" -> safeEnqueue(s0, "start")
                   [] transport = "ndjsonEarly" -> ControllerEnqueue(s0, "start").s
                   [] OTHER -> ControllerEnqueue(s0, "metadata").s
       IN  run' = Begin(s1)
    /\ UNCHANGED <<opts, prov, prev>>
    /\ UNCHANGED <<filterVars, legacy, pure>>

\* An NDJSON route that sends its completion record and leaves the stream
\* open.
FinishNdjson_NoClose(s) ==
    LET s1 == IF ~s.isControllerClosed /\ ~s.isCancelled THEN safeEnqueue(s, "complete") ELSE s
    IN  [s1 EXCEPT !.routeDone = TRUE]

\* The NDJSON route after streamCommitsBetween has returned.
FinishNdjson(s) ==
    LET s1 == IF ~s.isControllerClosed /\ ~s.isCancelled THEN safeEnqueue(s, "complete") ELSE s
    IN  [safeClose(s1) EXCEPT !.routeDone = TRUE]

\* The SSE route, and the NDJSON route without cancel handling, after
\* streamCommitsBetween has returned: an enqueue that throws lands in the
\* catch block, whose own enqueue throws out of start().
FinishSse(s) ==
    LET final == ControllerEnqueue(s, "complete")
        inCatch == ControllerEnqueue(final.s, "error")
    IN  IF ~final.threw
        THEN [final.s EXCEPT !.streamState = "closed", !.routeDone = TRUE]
        ELSE IF ~inCatch.threw
        THEN [inCatch.s EXCEPT !.streamState = "closed", !.routeDone = TRUE]
        ELSE [inCatch.s EXCEPT !.routeDone = TRUE, !.escaped = TRUE]

RouteFinish ==
    /\ run.pc = "done" /\ run.transport # "plain" /\ ~run.routeDone
    /\ run' = IF run.transport = "ndjson" THEN FinishNdjson(run) ELSE FinishSse(run)
    /\ UNCHANGED <<opts, prov, prev>>
    /\ UNCHANGED <<filterVars, legacy, pure>>

\* A cancel() that leaves isCancelled alone.
Cancelled_NoFlag(s) == [s EXCEPT !.streamState = "cancelled", !.atCancel = s.records]

\* The consumer disconnects while start() is suspended at an await: the
\* stream is closed, and the source's cancel(), if it has one, runs.
Cancelled(s) ==
    [s EXCEPT !.streamState = "cancelled", !.atCancel = s.records,
              !.isCancelled = IF s.transport = "ndjson" THEN TRUE ELSE @]

Cancel ==
    /\ run.mode = "stream" /\ run.transport # "plain"
    /\ run.streamState = "readable" /\ run.pc # "done"
    /\ run' = Cancelled(run)
    /\ UNCHANGED <<opts, prov, prev>>
    /\ UNCHANGED <<filterVars, legacy, pure>>

InitRoute ==
    /\ opts \in RouteOptionSets
    /\ prov = NoProvider
    /\ run = NoRun
    /\ prev = NoRun
    /\ FilterIdle
    /\ LegacyIdle
    /\ PureIdle

NextRoute ==
    \/ \E transport \in {"ndjson", "ndjsonEarly", "sse"} : RouteStart(transport)
    \/ ResolveFrom
    \/ ResolveTo
    \/ PageStep
    \/ IntersectStep
    \/ CompareStep
    \/ BatchStep
    \/ DelayStep
    \/ RouteFinish
    \/ Cancel

SpecRoute == InitRoute /\ [][NextRoute]_vars

\* C5: in the NDJSON stream route, once cancel() has observed the consumer's
\* disconnect and set isCancelled, controller.enqueue is not called again
\* and no record of any type is added to the stream, whatever the pipeline
\* does afterwards.
C5_NothingEnqueuedAfterCancel ==
    [][run.transport = "ndjson" /\ run.streamState = "cancelled" =>
          /\ run.isCancelled
          /\ run'.records = run.records
          /\ run'.enqueueCalls = run.enqueueCalls]_vars

\* An NDJSON run was cancelled before its first batch, went on to hand two
\* batches to onCommitBatch and finished, with nothing enqueued since.
C5_Witness ==
    /\ run.transport = "ndjson" /\ run.isCancelled
    /\ run.routeDone /\ run.result.success
    /\ Len(run.batches) = 2
    /\ run.records = run.atCancel
    /\ \A k \in 1..Len(run.records) : run.records[k] \notin {"commits", "complete"}

\* C6: on both stream transports a cancel at any point raises nothing: no
\* exception leaves start(), and the records enqueued before the cancel
\* are unchanged.
C6_CancelNeverRaises ==
    run.transport \in {"ndjson", "sse"} =>
        /\ ~run.escaped
        /\ run.streamState = "cancelled" =>
              SubSeq(run.records, 1, Len(run.atCancel)) = run.atCancel

\* The NDJSON route alone: a cancelled run ends without an exception.
C6_NdjsonSafe ==
    run.transport = "ndjson" =>
        /\ ~run.escaped
        /\ run.streamState = "cancelled" => run.records = run.atCancel

\* The event loop runs every continuation of start() that is ready, and
\* every request to the provider is answered; a consumer need not cancel.
RouteProgress ==
    \/ \E transport \in {"ndjson", "ndjsonEarly", "sse"} : RouteStart(transport)
    \/ ResolveFrom
    \/ ResolveTo
    \/ PageStep
    \/ IntersectStep
    \/ CompareStep
    \/ BatchStep
    \/ DelayStep
    \/ RouteFinish

SpecRouteLive == InitRoute /\ [][NextRoute]_vars /\ WF_vars(RouteProgress)

NdjsonRoute(r) == r.transport \in {"ndjson", "ndjsonEarly"}

Terminal == {"complete", "error"}

TerminalAt(r) == {k \in 1..Len(r.records) : r.records[k] \in Terminal}

\* The shape of the records of an NDJSON response that was not cancelled.
RecordsInOrder(r) ==
    /\ r.records # <<>> /\ r.records[1] = "start"
    /\ \A k \in 1..Len(r.records) :
          r.records[k] \in {"progress", "commits"} => k > 1
    /\ Cardinality(TerminalAt(r)) <= 1
    /\ \A k \in TerminalAt(r) : k = Len(r.records) /\ r.streamState = "closed"
    /\ r.streamState = "closed" => TerminalAt(r) # {}
    /\ r.routeDone => Cardinality(TerminalAt(r)) = 1 /\ r.streamState = "closed"

Completion(r) ==
    [type |-> "complete", success |-> r.result.success,
     repository |-> r.result.repository, refs |-> r.result.refs]

\* The NDJSON route has sent its completion record.
CompleteSent(r) ==
    /\ r.transport = "ndjson" /\ r.routeDone
    /\ r.records # <<>> /\ r.records[Len(r.records)] = "complete"

\* C17: every complete event of a successful streaming run carries the
\* repository coordinate and fromRef, toRef, fromSha and toSha, also when
\* the run found no commit in the range.
C17_CompleteCarriesCoordinate ==
    CompleteSent(run) /\ Completion(run).success =>
        Completion(run).repository /\ Completion(run).refs

\* A successful run that found at least one commit, or that resolved both
\* references to one commit, sends the coordinate and the references.
C17_WhenCommitsFound ==
    CompleteSent(run) /\ Completion(run).success
        /\ (run.commits # <<>> \/ run.result.warning = "sameVersion") =>
            Completion(run).repository /\ Completion(run).refs

\* ------------------------------------------------------------------------
\* Properties of getCommitsBetween / streamCommitsBetween (Spec)
\* ------------------------------------------------------------------------

Runs == {run, prev}

ApisCalled(r) == {r.calls[k].api : k \in 1..Len(r.calls)}

RangeApis == {"listCommits", "listCommits.base", "compareCommits"}

BothResolvedSame(r) == r.fromSha # NoSha /\ r.toSha # NoSha /\ r.fromSha = r.toSha

\* C1: in both entry points, when the two references resolve to the same
\* commit id the run ends with success=true, totalCommits=0 and a warning,
\* and the run makes no listCommits/compareCommits call, no per-commit file
\* lookup and no onBatch call.
C1_SameShaShortCircuit ==
    \A r \in Runs :
        BothResolvedSame(r) =>
            /\ r.pc = "done"
            /\ r.result.returned /\ r.result.success
            /\ r.result.totalCommits = 0
            /\ r.result.warning # ""
            /\ ApisCalled(r) \cap RangeApis = {}
            /\ "getCommit.files" \notin ApisCalled(r)
            /\ r.batches = <<>>
            /\ "commits" \notin {r.records[k] : k \in 1..Len(r.records)}

\* Both entry points have run on a request whose references resolve to the
\* same commit, with filter criteria given.
C1_Witness ==
    /\ prev.mode = "get" /\ run.mode = "stream"
    /\ BothResolvedSame(prev) /\ BothResolvedSame(run)
    /\ run.pc = "done" /\ HasCriteria
    /\ RefGiven(opts.from) /\ RefGiven(opts.to) /\ opts.from # opts.to

RECURSIVE Concat(_)
Concat(seqs) == IF seqs = <<>> THEN <<>> ELSE Head(seqs) \o Concat(Tail(seqs))

\* The commits of the batches handed to onBatch, in delivery order.
Delivered(r) == Concat([k \in 1..Len(r.batches) |-> r.batches[k].commits])

GetRun == IF run.mode = "get" THEN run ELSE prev

StreamRun == IF run.mode = "stream" THEN run ELSE prev

BothRan == run.pc = "done" /\ prev.mode # "none"

\* C2: for the same options and the same provider answers, the batches that
\* streamCommitsBetween hands to onBatch, concatenated in delivery order,
\* list the same commit ids in the same order as the commits list that
\* getCommitsBetween returns.
C2_BatchesEqualCommits ==
    BothRan => Delivered(StreamRun) = GetRun.result.commits

\* Both entry points have run on a range of more than one batch from which
\* the filter drops some commits and keeps others.
C2_Witness ==
    /\ BothRan
    /\ Len(StreamRun.batches) >= 2
    /\ Len(GetRun.result.commits) > 0
    /\ Len(GetRun.result.commits) < Len(GetRun.commits)

\* The run was stopped by the URL or by the provider, not by a callback.
ProviderFailure(r) == r.result.error \in {"InvalidUrl", "RefNotFound", "FetchFailed"}

ThrowingStream(r) == r.mode = "stream" /\ r.transport = "plain" /\ r.cbThrows # "none"

KeptOf(commits) == SelectSeq(commits, LAMBDA sha : Keeps(prov.pattern, sha))

\* The non-empty filtered batches of the fetched commits, in order.
RECURSIVE KeptBatches(_, _)
KeptBatches(commits, i) ==
    IF i >= Len(commits) THEN <<>>
    ELSE LET kept == KeptOf(SubSeq(commits, i + 1, Min(i + BATCH_SIZE, Len(commits))))
         IN  (IF kept = <<>> THEN <<>> ELSE <<kept>>) \o KeptBatches(commits, i + BATCH_SIZE)

FileLookups(r) == SelectSeq(r.calls, LAMBDA c : c.api = "getCommit.files")

\* C4: when onBatch or onProgress throws, streamCommitsBetween does not
\* abort: unless the URL or the provider fails the run, it looks up every
\* fetched commit, hands every non-empty batch to onBatch, and returns
\* success=true with totalCommits the number of commits the filter keeps.
C4_CallbackThrowsDoNotAbort ==
    \A r \in Runs :
        ThrowingStream(r) /\ r.pc = "done" =>
            /\ r.result.returned
            /\ r.result.success \/ ProviderFailure(r)
            /\ r.result.success /\ r.commits # <<>> =>
                  /\ [k \in 1..Len(FileLookups(r)) |-> FileLookups(r)[k].sha] = r.commits
                  /\ [k \in 1..Len(r.batches) |-> r.batches[k].commits] = KeptBatches(r.commits, 0)
                  /\ r.result.totalCommits = Len(KeptOf(r.commits))

\* A run of two batches, both non-empty, whose onBatch throws every time,
\* has finished.
C4_Witness ==
    /\ ThrowingStream(run) /\ run.cbThrows \in {"batch", "both"}
    /\ run.pc = "done" /\ run.result.success
    /\ Len(run.commits) > BATCH_SIZE
    /\ Len(run.batches) = 2
    /\ run.result.totalCommits > 0

\* C7: getCommitsBetween and streamCommitsBetween never throw to the caller:
\* an invalid repository URL, an unresolvable reference or a fetch error
\* gives a returned result with success=false, an error message and
\* elapsedTime.
C7_FailuresAreReturned ==
    \A r \in Runs :
        r.pc = "done" =>
            /\ r.result.returned
            /\ ~r.result.success => r.result.error # "" /\ r.result.elapsedTime
            /\ ~parseGitHubUrl(opts.repoUrl).matched =>
                  ~r.result.success /\ r.result.error = "InvalidUrl"
            /\ (\E k \in 1..Len(r.calls) : r.calls[k].api = "getRef.heads") =>
                  ~r.result.success /\ r.result.error = "RefNotFound"
            /\ (r.pc = "done" /\ prov.fetch.fails /\ ApisCalled(r) \cap RangeApis # {}) =>
                  ~r.result.success /\ r.result.error = "FetchFailed"

\* Both entry points have returned the failure of an invalid URL.
C7_Witness ==
    /\ BothRan
    /\ ~parseGitHubUrl(opts.repoUrl).matched
    /\ ~run.result.success /\ ~prev.result.success
    /\ run.result.elapsedTime /\ prev.result.elapsedTime

NeitherGiven == ~RefGiven(opts.from) /\ ~RefGiven(opts.to)

OnlyFrom == RefGiven(opts.from) /\ ~RefGiven(opts.to)

OnlyTo == ~RefGiven(opts.from) /\ RefGiven(opts.to)

\* The run took the whole range from label to the latest commit.
RangeFromToLatest(r, label) ==
    /\ r.finalFrom = label
    /\ r.finalTo = "HEAD"
    /\ r.commits = r.fetched

\* The run took at most the first commit of the range HEAD~1..HEAD.
AtMostLatest(r) ==
    /\ r.finalFrom = "HEAD~1"
    /\ r.finalTo = "HEAD"
    /\ Len(r.commits) <= 1
    /\ r.result.totalCommits <= 1

AllButLast(r) == 1..(Len(r.batches) - 1)

\* C15 as stated: in every run each delivered batch except the last one
\* carries exactly 10 commits.
C15_AsStated ==
    \A r \in Runs :
        r.mode = "stream" =>
            \A k \in AllButLast(r) : Len(r.batches[k].commits) = BATCH_SIZE

\* C15: onBatch is invoked once per window of 10 fetched commits of which
\* the filter keeps at least one, with the kept commits of that window:
\* every delivered batch carries 1 to 10 commits, the batches of a finished
\* run are the non-empty filtered windows in order, and without a directory
\* criterion every batch except the last one carries exactly 10.
C15_BatchPerWindow ==
    \A r \in Runs :
        r.mode = "stream" =>
            /\ \A k \in 1..Len(r.batches) :
                  Len(r.batches[k].commits) \in 1..BATCH_SIZE
            /\ r.pc = "done" /\ r.result.success /\ r.commits # <<>> =>
                  [k \in 1..Len(r.batches) |-> r.batches[k].commits] = KeptBatches(r.commits, 0)
            /\ ~HasCriteria =>
                  \A k \in AllButLast(r) : Len(r.batches[k].commits) = BATCH_SIZE

\* A finished run under a directory criterion delivered two batches, the
\* first of them with fewer than 10 commits.
C15_Witness ==
    /\ run.mode = "stream" /\ run.pc = "done" /\ run.result.success
    /\ HasCriteria
    /\ Len(run.batches) = 2
    /\ Len(run.batches[1].commits) < BATCH_SIZE

\* ------------------------------------------------------------------------
\* The directory filter on its own (SpecFilter)
\* ------------------------------------------------------------------------

MaxFiles == 2

MaxPieces == 2

SeqsUpTo(S, n) == UNION {[1..k -> S] : k \in 0..n}

\* Paths a commit may change.
FilePaths ==
    {<<"s", "/", "x", "/", "a">>, <<"s", "/", "a">>, <<"x", "/", "a">>,
     <<"s", "x">>, <<"x", ".", ".", "/", "a">>}

FilterTargetDirs == {<<>>, <<"s">>, <<"s", "/">>}

\* What a caller may write between the commas of excludeSubPaths.
ExcludePieces ==
    {<<>>, <<" ">>, <<"x">>, <<" ", "x", " ">>, <<"/", "x">>,
     <<"x", ".", ".", "/">>, <<"s", "/", "x">>}

RECURSIVE JoinComma(_)
JoinComma(pieces) ==
    IF Len(pieces) = 0 THEN <<>>
    ELSE IF Len(pieces) = 1 THEN pieces[1]
    ELSE pieces[1] \o <<",">> \o JoinComma(Tail(pieces))

ExcludeStrings == {JoinComma(ps) : ps \in SeqsUpTo(ExcludePieces, MaxPieces)}

RunIdle ==
    /\ opts = [repoUrl |-> ValidUrl, from |-> NoRef, to |-> NoRef,
               targetDir |-> <<>>, excludeSubPaths |-> <<>>]
    /\ prov = NoProvider
    /\ run = NoRun
    /\ prev = NoRun

\* A caller evaluates shouldIncludeCommit(files, targetDir, excludeSubPaths).
Evaluate ==
    /\ ~fDone
    /\ fResult' = shouldIncludeCommit(fFiles, fTargetDir, fExclude)
    /\ fDone' = TRUE
    /\ UNCHANGED <<fFiles, fTargetDir, fExclude>>
    /\ UNCHANGED <<runVars, legacy, pure>>

InitFilter ==
    /\ fFiles \in SeqsUpTo(FilePaths, MaxFiles)
    /\ fTargetDir \in FilterTargetDirs
    /\ fExclude \in ExcludeStrings
    /\ fResult = FALSE
    /\ fDone = FALSE
    /\ RunIdle
    /\ LegacyIdle
    /\ PureIdle

NextFilter == Evaluate

SpecFilter == InitFilter /\ [][NextFilter]_vars

\* The files the exclude patterns are applied to.
InScope == {i \in 1..Len(fFiles) : Falsy(fTargetDir) \/ StartsWith(fFiles[i], fTargetDir)}

GivenPatterns == {ExcludePatterns(fExclude)[j] : j \in 1..Len(ExcludePatterns(fExclude))}

\* The file with the targetDir prefix stripped and nothing more.
StrippedOfPrefix(i) == SubSeq(fFiles[i], Len(fTargetDir) + 1, Len(fFiles[i]))

\* The file with the targetDir prefix and one "/" after it stripped.
StrippedOfPrefixAndSlash(i) ==
    LET rest == StrippedOfPrefix(i)
    IN  IF rest # <<>> /\ rest[1] = "/" THEN Tail(rest) ELSE rest

ValidPatterns ==
    {p \in GivenPatterns : p[1] # "/" /\ ~Includes(p, <<".", ".", "/">>)}

NotDescendant(p) == (p # <<>> /\ p[1] = "/") \/ Includes(p, <<".", ".", "/">>)

\* excludeSubPaths with the patterns that are not descendant paths taken out.
WithoutInvalid(excludeSubPaths) ==
    JoinComma(SelectSeq(Split(excludeSubPaths), LAMBDA p : ~NotDescendant(Trim(p))))

SomeInvalid == \E p \in GivenPatterns : NotDescendant(p)

\* C18: a pattern that starts with "/" or holds a parent-directory segment
\* matches no file: the result is the one obtained with such patterns
\* taken out of excludeSubPaths, which, when all patterns are invalid, is
\* the result with no exclude pattern.
C18_InvalidPatternsIgnored ==
    fDone /\ SomeInvalid =>
        fResult = shouldIncludeCommit(fFiles, fTargetDir, WithoutInvalid(fExclude))

\* The same for the commits with at least one file the patterns apply to.
C18_WithFilesInScope ==
    fDone /\ SomeInvalid /\ InScope # {} =>
        fResult = shouldIncludeCommit(fFiles, fTargetDir, WithoutInvalid(fExclude))

\* ------------------------------------------------------------------------
\* The reference resolver under every answer of the provider (SpecResolve)
\* ------------------------------------------------------------------------

\* Every way the three lookups of a label may answer.
AllRefAnswers == {<<c, t, h>> : c \in {NoSha} \cup RefShas,
                                t \in {NoSha} \cup RefShas,
                                h \in {NoSha} \cup RefShas}

InitResolve ==
    /\ opts = [repoUrl |-> ValidUrl, from |-> "a", to |-> "b",
               targetDir |-> <<>>, excludeSubPaths |-> <<>>]
    /\ \E x \in AllRefAnswers, y \in AllRefAnswers :
          prov = [NoProvider EXCEPT !.refs["a"] = x, !.refs["b"] = y]
    /\ run = NoRun
    /\ prev = NoRun
    /\ FilterIdle
    /\ LegacyIdle
    /\ PureIdle

NextResolve ==
    \/ \E mode \in {"get", "stream"} : StartRun(mode, "none")
    \/ ResolveFrom
    \/ ResolveTo

SpecResolve == InitResolve /\ [][NextResolve]_vars

LookupOrder == <<"getCommit", "getRef.tags", "getRef.heads">>

\* The lookups the run has issued for a label, in order.
LookupsOf(r, label) ==
    SelectSeq(r.calls, LAMBDA c : c.ref = label /\ c.api \in {"getCommit", "getRef.tags", "getRef.heads"})

\* C9: getCommitSha tries the commit lookup, then the tag ref, then the
\* branch ref, in that order, and stops at the first that succeeds, whose
\* sha it returns; when all three fail the run fails with an error naming
\* the label, and no further call is issued.
C9_LookupOrder ==
    \A label \in {"a", "b"} :
        LET lookups == LookupsOf(run, label)
            n == Len(lookups)
            answers == prov.refs[label]
        IN  n > 0 =>
               /\ n <= 3
               /\ \A k \in 1..n : lookups[k].api = LookupOrder[k]
               /\ \A k \in 1..(n - 1) : answers[k] = NoSha
               /\ answers[n] # NoSha \/ n = 3
               /\ answers[n] # NoSha =>
                     IF label = run.finalFrom THEN run.fromSha = answers[n]
                     ELSE run.toSha = answers[n]
               /\ answers[n] = NoSha =>
                     /\ run.pc = "done"
                     /\ ~run.result.success
                     /\ run.result.error = "RefNotFound"
                     /\ run.result.errorLabel = label
                     /\ run.calls[Len(run.calls)] = lookups[n]

\* `from` was found as a branch after two failed lookups, `to` as a tag
\* although a branch of that name exists too.
C9_Witness ==
    /\ Len(LookupsOf(run, "a")) = 3 /\ run.fromSha # NoSha
    /\ Len(LookupsOf(run, "b")) = 2 /\ run.toSha # NoSha
    /\ prov.refs["b"][3] # NoSha

\* ------------------------------------------------------------------------
\* The graph strategy with its fallback to the linear strategy: the earlier
\* core's getCommitsBetween and the command-line program, for requests
\* without directory criteria (SpecLegacy)
\* ------------------------------------------------------------------------

MaxLegacyCommits == 21

\* const REQUEST_SIZE = 20 (core), 50 (command line)
REQUEST_SIZE == 20

CLI_REQUEST_SIZE == 50

\* while (... && allCommits.length < 1000)
GraphCap == 1000

\* The id of the base: its place in the head's history, or an id outside it.
BaseSha(b) == IF b = 0 THEN 99 ELSE b

RECURSIVE Reverse(_)
Reverse(q) == IF q = <<>> THEN <<>> ELSE Append(Reverse(Tail(q)), Head(q))

\* What compareCommits(base, head) lists, oldest first: the commits of the
\* head's history after the base, all of it when the base is not in it.
CompareRange(n, b) == Reverse(History(IF b = 0 THEN n ELSE b - 1))

\* The history of the repository's HEAD, newest first: commits 101.. are
\* not in the history of the head commit.
HeadHistory(a) ==
    CASE a.head = "ahead" -> <<101>> \o History(a.n)
      [] a.head = "diverged" -> [i \in 1..a.n |-> 100 + i]
      [] OTHER -> History(a.n)

\* The history a graph query reads: object(expression: $headSha) in the
\* first query, object(expression: "HEAD") in the query with a cursor.
HistoryOf(expression, a) == IF expression = "HEAD" THEN HeadHistory(a) ELSE History(a.n)

LegacyAnswers ==
    IF legacy.prov.asked THEN {legacy.prov}
    ELSE {[asked |-> TRUE, refFails |-> rf, n |-> n, b |-> b, graphFailsAt |-> g,
           restFails |-> f, head |-> h] :
             rf \in {"none", "from", "to"}, n \in 0..MaxLegacyCommits,
             b \in {0, 1, 2, MaxLegacyCommits}, g \in 0..2, f \in BOOLEAN,
             h \in {"to", "ahead", "diverged"}}

LegacyCalled(s, api) == [s EXCEPT !.calls = Append(@, api)]

\* The catch block: the core returns a failure result, the command-line
\* program prints the error and exits with status 1.
LegacyFail(s, error) ==
    [s EXCEPT !.pc = "done",
              !.result = [LegacyNoResult EXCEPT !.returned = TRUE, !.success = FALSE,
                                                !.error = error,
                                                !.exitCode = IF s.program = "cli" THEN 1 ELSE 0]]

\* A fetched commit: its id and whether commit.commit.message is a string.
Fetched(shas, hasMessage) == [k \in 1..Len(shas) |-> [sha |-> shas[k], hasMessage |-> hasMessage]]

\* processCommits, then the result.  The core reads
\* commit.commit.message || `Commit ${shortHash}`; the command-line program
\* calls parseCommitMessage(commit.commit.message), whose message.match
\* throws a TypeError when the message is undefined.
LegacyFinish(s, commits, apiUsed) ==
    IF s.program = "cli" /\ \E k \in 1..Len(commits) : ~commits[k].hasMessage
    THEN LegacyFail(s, "TypeError")
    ELSE [s EXCEPT !.pc = "done",
                   !.result = [LegacyNoResult EXCEPT
                                  !.returned = TRUE, !.success = TRUE,
                                  !.commits = [k \in 1..Len(commits) |-> commits[k].sha],
                                  !.apiUsed = IF s.program = "core" THEN apiUsed ELSE ""]]

\* The call of getCommitsBetweenREST / compareCommits.
LegacyBeginRest(s) == [LegacyCalled(s, "compareCommits") EXCEPT !.pc = "awaitRest"]

\* A caller runs the core's getCommitsBetween(options) or the command-line
\* program; a second run repeats the request another way.
LegacyStart(program, restOnly, format) ==
    /\ \/ legacy.cur.pc = "idle"
       \/ /\ legacy.cur.pc = "done" /\ legacy.last.program = "none"
          /\ <<program, restOnly>> # <<legacy.cur.program, legacy.cur.restOnly>>
    /\ program = "cli" => ~restOnly
    /\ program = "core" => format = "human"
    /\ \E a \in LegacyAnswers :
          legacy' = [cur |-> [LegacyCalled(LegacyNoRun, "getCommitSha.from") EXCEPT
                                 !.program = program, !.restOnly = restOnly,
                                 !.format = format, !.pc = "awaitFromSha"],
                     last |-> IF legacy.cur.pc = "done" THEN legacy.cur ELSE legacy.last,
                     prov |-> a]
    /\ UNCHANGED <<runVars, filterVars, pure>>

\* await getCommitSha(..., from)
LegacyResolveFrom ==
    /\ legacy.cur.pc = "awaitFromSha"
    /\ legacy' = [legacy EXCEPT !.cur =
                     IF legacy.prov.refFails = "from" THEN LegacyFail(@, "RefNotFound")
                     ELSE [LegacyCalled(@, "getCommitSha.to") EXCEPT !.pc = "awaitToSha"]]
    /\ UNCHANGED <<runVars, filterVars, pure>>

\* await getCommitSha(..., to), then the choice of strategy.
LegacyResolveTo ==
    /\ legacy.cur.pc = "awaitToSha"
    /\ legacy' = [legacy EXCEPT !.cur =
                     IF legacy.prov.refFails = "to" THEN LegacyFail(@, "RefNotFound")
                     ELSE IF @.program = "core" /\ @.restOnly THEN LegacyBeginRest(@)
                     ELSE [LegacyCalled(@, "graphql") EXCEPT !.pc = "awaitGraph", !.page = 1,
                                                             !.expressions = <<"headSha">>]]
    /\ UNCHANGED <<runVars, filterVars, pure>>

\* One page of getCommitsBetweenGraphQL has arrived: scanned up to the
\* base, then the next page (the cursor is the place in the listing where
\* the page ended), the return, or on an error the fallback.
GraphPage(s, a) ==
    LET size == IF s.program = "core" THEN REQUEST_SIZE ELSE CLI_REQUEST_SIZE
        history == HistoryOf(s.expressions[s.page], a)
        data == PageOf(history, size, s.page)
        at == IndexOf(data, BaseSha(a.b))
        foundBase == at # 0
        allCommits == s.allCommits \o (IF foundBase THEN SubSeq(data, 1, at - 1) ELSE data)
        hasNextPage == s.page * size < Len(history)
    IN  IF a.graphFailsAt = s.page
        THEN [LegacyBeginRest(s) EXCEPT !.graphFailed = TRUE,
                                        !.notice = (s.program = "cli" /\ s.format = "human")]
        ELSE IF hasNextPage /\ ~foundBase /\ Len(allCommits) < GraphCap
        THEN [LegacyCalled(s, "graphql") EXCEPT !.page = s.page + 1, !.allCommits = allCommits,
                                                !.expressions = Append(@, "HEAD")]
        ELSE LegacyFinish([s EXCEPT !.allCommits = allCommits],
                          Fetched(allCommits, TRUE), "graphql")

\* await graphqlWithAuth(paginatedQuery, variables)
LegacyGraphStep ==
    /\ legacy.cur.pc = "awaitGraph"
    /\ legacy' = [legacy EXCEPT !.cur = GraphPage(@, legacy.prov)]
    /\ UNCHANGED <<runVars, filterVars, pure>>

\* The commits as the caller maps the compareCommits response: the core
\* copies commit.commit.message, the command-line fallback copies
\* commit.message, which the response does not have.
RestCommits(s, a) == Fetched(CompareRange(a.n, a.b), s.program = "core")

\* await octokit.rest.repos.compareCommits({base, head})
LegacyRestStep ==
    /\ legacy.cur.pc = "awaitRest"
    /\ legacy' = [legacy EXCEPT !.cur =
                     IF legacy.prov.restFails THEN LegacyFail(@, "FetchFailed")
                     ELSE LegacyFinish(@, RestCommits(@, legacy.prov),
                                       IF @.restOnly THEN "rest" ELSE "rest-fallback")]
    /\ UNCHANGED <<runVars, filterVars, pure>>

InitLegacy ==
    /\ RunIdle
    /\ FilterIdle
    /\ LegacyIdle
    /\ PureIdle

NextLegacy ==
    \/ \E restOnly \in BOOLEAN : LegacyStart("core", restOnly, "human")
    \/ \E format \in {"human", "json"} : LegacyStart("cli", FALSE, format)
    \/ LegacyResolveFrom
    \/ LegacyResolveTo
    \/ LegacyGraphStep
    \/ LegacyRestStep

SpecLegacy == InitLegacy /\ [][NextLegacy]_vars

LegacyRuns == {legacy.cur, legacy.last}

GraphCalled(r) == \E k \in 1..Len(r.calls) : r.calls[k] = "graphql"

\* C10: when the graph strategy fails and no strategy was forced, the run
\* falls back to the linear strategy instead of failing, reports the
\* fallback in apiUsed (where the result has that field), and returns the
\* commits that a restOnly run returns on the same inputs; a restOnly run
\* never calls the graph API.
C10_GraphFallback ==
    \A r \in LegacyRuns :
        r.pc = "done" =>
            /\ r.restOnly => ~GraphCalled(r)
            /\ \A q \in LegacyRuns :
                  (/\ ~r.restOnly /\ r.graphFailed
                   /\ q.pc = "done" /\ q.restOnly /\ q.result.success) =>
                      /\ r.result.success
                      /\ r.program = "core" => r.result.apiUsed = "rest-fallback"
                      /\ r.result.commits = q.result.commits

\* The earlier core alone keeps C10.
C10_CoreFallback ==
    \A r \in LegacyRuns :
        r.pc = "done" /\ r.program = "core" =>
            /\ r.restOnly => ~GraphCalled(r)
            /\ \A q \in LegacyRuns :
                  (/\ ~r.restOnly /\ r.graphFailed
                   /\ q.pc = "done" /\ q.restOnly /\ q.result.success) =>
                      /\ r.result.success
                      /\ r.result.apiUsed = "rest-fallback"
                      /\ r.result.commits = q.result.commits

\* ------------------------------------------------------------------------
\* The commit message parser
\* ------------------------------------------------------------------------

semverTypes ==
    <<<<"m", "a", "j", "o", "r">>,
      <<"m", "i", "n", "o", "r">>,
      <<"p", "a", "t", "c", "h">>,
      <<"f", "i", "x">>,
      <<"m", "a", "i", "n", "t">>,
      <<"c", "h", "o", "r", "e">>,
      <<"f", "e", "a", "t">>,
      <<"f", "e", "a", "t", "u", "r", "e">>,
      <<"d", "o", "c", "s">>,
      <<"s", "t", "y", "l", "e">>,
      <<"r", "e", "f", "a", "c", "t", "o", "r">>,
      <<"t", "e", "s", "t">>,
      <<"b", "u", "i", "l", "d">>,
      <<"c", "i">>,
      <<"p", "e", "r", "f">>,
      <<"r", "e", "v", "e", "r", "t">>>>

UpperCase == <<"A", "B", "C", "D", "E", "F", "G", "H", "I", "J", "K", "L", "M", "N", "O", "P", "Q", "R", "S", "T", "U", "V", "W", "X", "Y", "Z">>

LowerCase == <<"a", "b", "c", "d", "e", "f", "g", "h", "i", "j", "k", "l", "m", "n", "o", "p", "q", "r", "s", "t", "u", "v", "w", "x", "y", "z">>

IsUpper(c) == \E i \in DOMAIN UpperCase : UpperCase[i] = c

IsLower(c) == \E i \in DOMAIN LowerCase : LowerCase[i] = c

IsDigit(c) == c \in {"0", "1", "2", "3", "4", "5", "6", "7", "8", "9"}

\* What "." does not match.
LineTerminators == {"\n", "\r"}

\* s.toLowerCase()
toLowerCase(s) ==
    [i \in 1..Len(s) |->
        IF IsUpper(s[i]) THEN LowerCase[CHOOSE k \in DOMAIN UpperCase : UpperCase[k] = s[i]]
        ELSE s[i]]

\* A classifier pattern that takes the word with a space after it as well.
TypeMatches_WordOnly(message, k) ==
    LET w == semverTypes[k]
    IN  /\ Len(message) > Len(w)
        /\ toLowerCase(SubSeq(message, 1, Len(w))) = w
        /\ message[Len(w) + 1] \in {":", " "}

\* ^(type): under the flag i, for the k-th alternative.
TypeMatches(message, k) ==
    LET w == semverTypes[k]
    IN  /\ Len(message) > Len(w)
        /\ toLowerCase(SubSeq(message, 1, Len(w))) = w
        /\ message[Len(w) + 1] = ":"

\* The alternative the pattern matches with: the first that fits; 0 for none.
MatchedType(message) ==
    LET fits == {k \in DOMAIN semverTypes : TypeMatches(message, k)}
    IN  IF fits = {} THEN 0 ELSE CHOOSE k \in fits : \A j \in fits : k <= j

\* \s* from pos on: the place after it.
RECURSIVE SkipSpace(_, _)
SkipSpace(s, pos) ==
    IF pos <= Len(s) /\ IsSpace(s[pos]) THEN SkipSpace(s, pos + 1) ELSE pos

\* [A-Z]+ from pos on, with the lower-case letters too under the flag i.
RECURSIVE SkipLetters(_, _, _)
SkipLetters(s, pos, ignoreCase) ==
    IF pos <= Len(s) /\ (IsUpper(s[pos]) \/ (ignoreCase /\ IsLower(s[pos])))
    THEN SkipLetters(s, pos + 1, ignoreCase) ELSE pos

\* \d+ from pos on.
RECURSIVE SkipDigits(_, _)
SkipDigits(s, pos) ==
    IF pos <= Len(s) /\ IsDigit(s[pos]) THEN SkipDigits(s, pos + 1) ELSE pos

\* (.*) from pos on.
RECURSIVE SkipLine(_, _)
SkipLine(s, pos) ==
    IF pos <= Len(s) /\ s[pos] \notin LineTerminators THEN SkipLine(s, pos + 1) ELSE pos

\* \[([A-Z]+-\d+)\] at pos: the place after the "]", 0 when it is not there.
TicketEnd(s, pos, ignoreCase) ==
    IF pos > Len(s) \/ s[pos] # "[" THEN 0
    ELSE LET dash == SkipLetters(s, pos + 1, ignoreCase)
         IN  IF dash = pos + 1 \/ dash > Len(s) \/ s[dash] # "-" THEN 0
             ELSE LET close == SkipDigits(s, dash + 1)
                  IN  IF close = dash + 1 \/ close > Len(s) \/ s[close] # "]" THEN 0
                      ELSE close + 1

\* null, for a classifier and for a ticket.
Null == <<>>

parseCommitMessage(message) ==
    LET k == MatchedType(message)
    IN  IF k # 0
        THEN LET afterColon == Len(semverTypes[k]) + 2
                 ticketAt == SkipSpace(message, afterColon)
                 ticketEnd == TicketEnd(message, ticketAt, TRUE)
                 restAt == IF ticketEnd # 0 THEN SkipSpace(message, ticketEnd) ELSE ticketAt
                 restEnd == SkipLine(message, restAt)
             IN  [semverType |-> toLowerCase(SubSeq(message, 1, Len(semverTypes[k]))),
                  jiraTicketId |-> IF ticketEnd # 0
                                   THEN SubSeq(message, ticketAt + 1, ticketEnd - 2)
                                   ELSE Null,
                  cleanMessage |-> Trim(SubSeq(message, restAt, restEnd - 1))]
        ELSE LET found == {i \in 1..Len(message) : TicketEnd(message, i, FALSE) # 0}
                 first == CHOOSE i \in found : \A j \in found : i <= j
             IN  [semverType |-> Null,
                  jiraTicketId |-> IF found = {} THEN Null
                                   ELSE SubSeq(message, first + 1,
                                               TicketEnd(message, first, FALSE) - 2),
                  cleanMessage |-> message]

\* ------------------------------------------------------------------------
\* parseCommitMessage on its own (SpecParse)
\* ------------------------------------------------------------------------

MaxMessagePieces == 4

\* What a commit message is put together from.
MessagePieces ==
    {<<"f", "i", "x">>, <<"F", "e", "a", "t">>, <<"f", "e", "a", "t", "u", "r", "e">>,
     <<":">>, <<" ">>, <<"\n">>, <<"[", "A", "B", "-", "1", "]">>,
     <<"[", "a", "b", "-", "2", "]">>, <<"[", "A", "-", "]">>, <<"n", "o">>}

RECURSIVE Flatten(_)
Flatten(pieces) == IF pieces = <<>> THEN <<>> ELSE Head(pieces) \o Flatten(Tail(pieces))

Messages == {Flatten(ps) : ps \in SeqsUpTo(MessagePieces, MaxMessagePieces)}

\* A caller evaluates parseCommitMessage(message).
Parse ==
    /\ pure.fn = "parseCommitMessage" /\ ~pure.done
    /\ pure' = [pure EXCEPT !.out = parseCommitMessage(pure.arg), !.done = TRUE]
    /\ UNCHANGED <<runVars, filterVars, legacy>>

InitParse ==
    /\ \E m \in Messages :
          pure = [fn |-> "parseCommitMessage", arg |-> m, out |-> <<>>, done |-> FALSE]
    /\ RunIdle
    /\ FilterIdle
    /\ LegacyIdle

NextParse == Parse

SpecParse == InitParse /\ [][NextParse]_vars

Parsed == pure.fn = "parseCommitMessage" /\ pure.done

\* The classifier words the message begins with, in any case, with the
\* character c right after the word.
WordsBefore(m, c) ==
    {k \in DOMAIN semverTypes :
        /\ Len(m) > Len(semverTypes[k])
        /\ toLowerCase(SubSeq(m, 1, Len(semverTypes[k]))) = semverTypes[k]
        /\ m[Len(semverTypes[k]) + 1] = c}

\* m[i..j] is a bracketed ticket: "[", capital letters, "-", digits, "]".
IsTicket(m, i, j) ==
    /\ 1 <= i /\ j <= Len(m) /\ m[i] = "[" /\ m[j] = "]"
    /\ \E d \in (i + 2)..(j - 2) :
          /\ m[d] = "-"
          /\ \A x \in (i + 1)..(d - 1) : IsUpper(m[x])
          /\ \A x \in (d + 1)..(j - 1) : IsDigit(m[x])

\* The first bracketed ticket of m without its brackets; null when m has none.
FirstTicket(m) ==
    LET at == {i \in 1..Len(m) : \E j \in i..Len(m) : IsTicket(m, i, j)}
        i == CHOOSE i \in at : \A x \in at : i <= x
        j == CHOOSE j \in i..Len(m) : IsTicket(m, i, j)
    IN  IF at = {} THEN Null ELSE SubSeq(m, i + 1, j - 1)

\* The first line of m.
FirstLine(m) ==
    LET breaks == {i \in 1..Len(m) : m[i] \in LineTerminators}
    IN  IF breaks = {} THEN m
        ELSE SubSeq(m, 1, (CHOOSE i \in breaks : \A x \in breaks : i <= x) - 1)

\* The ticket that opens s, s being stripped of its leading blanks; null
\* when s opens with something else.
LeadingTicket(s) ==
    LET ends == {j \in 1..Len(s) : IsTicket(s, 1, j)}
    IN  IF ends = {} THEN Null ELSE SubSeq(s, 2, (CHOOSE j \in ends : TRUE) - 1)

\* What the first line holds after the classifier, the colon and the ticket.
RemainderOfFirstLine(m, k) ==
    LET after == TrimStart(SubSeq(FirstLine(m), Len(semverTypes[k]) + 2, Len(FirstLine(m))))
        ticket == LeadingTicket(after)
    IN  IF ticket = Null THEN Trim(after)
        ELSE Trim(SubSeq(after, Len(ticket) + 3, Len(after)))

\* C12: for a message that begins with a classifier and ":" the result is
\* the lower-cased classifier, the bracketed ticket right after the colon
\* (null if absent) and the trimmed remainder of the first line; for every
\* other message it is classifier null, the first bracketed ticket anywhere
\* (null if none) and the message as it is.
C12_ParseContract ==
    Parsed =>
        LET m == pure.arg
            ws == WordsBefore(m, ":")
        IN  IF ws # {}
            THEN \E k \in ws :
                    /\ pure.out.semverType = semverTypes[k]
                    /\ pure.out.jiraTicketId =
                          LeadingTicket(TrimStart(SubSeq(FirstLine(m), Len(semverTypes[k]) + 2,
                                                         Len(FirstLine(m)))))
                    /\ pure.out.cleanMessage = RemainderOfFirstLine(m, k)
            ELSE /\ pure.out.semverType = Null
                 /\ pure.out.jiraTicketId = FirstTicket(m)
                 /\ pure.out.cleanMessage = m

\* Nothing but white space follows the first line break of m.
OnOneLine(m) == Trim(m) = Trim(FirstLine(m))

\* The contract holds on the messages of one line whose tickets are in
\* capital letters.
C12_OnOneLine ==
    Parsed /\ OnOneLine(pure.arg) /\ ~Includes(pure.arg, <<"[", "a">>)
        => C12_ParseContract

\* The words the message begins with, with a space and no colon after them.
C13_Words == WordsBefore(pure.arg, " ")

\* C13 as stated: a message that starts with a classifier word with no ":"
\* after it yields that word as classifier, no ticket, and the text after
\* the word as cleanMessage.
C13_AsStated ==
    Parsed /\ C13_Words # {} =>
        \E k \in C13_Words :
            /\ pure.out.semverType = semverTypes[k]
            /\ pure.out.jiraTicketId = Null
            /\ pure.out.cleanMessage =
                  Trim(SubSeq(pure.arg, Len(semverTypes[k]) + 1, Len(pure.arg)))

\* C13: a message that starts with a classifier word with no ":" after it
\* is parsed as any other message without a classifier: classifier null,
\* the first bracketed ticket of the message (null if none), and the whole
\* message as cleanMessage.
C13_WordWithoutColon ==
    Parsed /\ C13_Words # {} =>
        /\ pure.out.semverType = Null
        /\ pure.out.jiraTicketId = FirstTicket(pure.arg)
        /\ pure.out.cleanMessage = pure.arg

\* "fix no" was parsed: no classifier, no ticket, the message as it is.
C13_Witness ==
    /\ Parsed
    /\ pure.arg = <<"f", "i", "x", " ", "n", "o">>
    /\ pure.out = [semverType |-> Null, jiraTicketId |-> Null, cleanMessage |-> pure.arg]

\* ------------------------------------------------------------------------
\* parseGitHubUrl on its own (SpecUrl)
\* ------------------------------------------------------------------------

MaxUrlPieces == 5

HttpsHost == <<"h", "t", "t", "p", "s", ":", "/", "/", "g", "i", "t", "h", "u", "b", ".", "c", "o", "m", "/">>

SshHost == <<"g", "i", "t", "@", "g", "i", "t", "h", "u", "b", ".", "c", "o", "m", ":">>

\* What a repository URL is put together from.
UrlPieces ==
    {HttpsHost, SshHost, <<"h", "t", "t", "p", "s", ":", "/", "/", "x", ".", "c", "o", "m", "/">>,
     <<"o">>, <<"r">>, <<"a", ".", "b">>, <<"/">>, DotGit}

UrlStrings == {Flatten(ps) : ps \in SeqsUpTo(UrlPieces, MaxUrlPieces)}

\* A caller evaluates parseGitHubUrl(url).
ParseUrl ==
    /\ pure.fn = "parseGitHubUrl" /\ ~pure.done
    /\ pure' = [pure EXCEPT !.out = parseGitHubUrl(pure.arg), !.done = TRUE]
    /\ UNCHANGED <<runVars, filterVars, legacy>>

InitUrl ==
    /\ \E url \in UrlStrings :
          pure = [fn |-> "parseGitHubUrl", arg |-> url, out |-> NoMatch, done |-> FALSE]
    /\ RunIdle
    /\ FilterIdle
    /\ LegacyIdle

NextUrl == ParseUrl

SpecUrl == InitUrl /\ [][NextUrl]_vars

UrlParsed == pure.fn = "parseGitHubUrl" /\ pure.done

\* Owner and repository names.
Names == {<<"o">>, <<"r">>, <<"a", ".", "b">>}

\* The three documented forms of the URL of owner/repo.
HttpsForm(owner, repo) == HttpsHost \o owner \o <<"/">> \o repo

HttpsGitForm(owner, repo) == HttpsForm(owner, repo) \o DotGit

SshForm(owner, repo) == SshHost \o owner \o <<"/">> \o repo \o DotGit

\* s[i..j] is a name: not empty and without "/".
IsName(s, i, j) == i <= j /\ \A x \in i..j : s[x] # "/"

\* url holds host, an owner, "/" and a repo, the repo ending the url or,
\* when a path may follow, standing before a "/".
HasCoordinate(url, host, pathMayFollow) ==
    \E i \in 1..(Len(url) - Len(host) + 1) :
        /\ SubSeq(url, i, i + Len(host) - 1) = host
        /\ \E j \in (i + Len(host) + 1)..Len(url) :
              /\ url[j] = "/" /\ IsName(url, i + Len(host), j - 1)
              /\ \E k \in (j + 1)..Len(url) :
                    /\ IsName(url, j + 1, k)
                    /\ k = Len(url) \/ (pathMayFollow /\ url[k + 1] = "/")

\* C14: the https form, the https form with ".git" and the <<"g", "i", "t", "@", "g", "i", "t", "h", "u", "b", ".", "c", "o", "m", ":">> form of one
\* repository all yield its owner and repo, and a string that holds neither
\* github.com/owner/repo nor github.com:owner/repo is rejected as invalid.
C14_SameCoordinate ==
    UrlParsed =>
        /\ \A owner \in Names, repo \in Names :
              pure.arg \in {HttpsForm(owner, repo), HttpsGitForm(owner, repo),
                            SshForm(owner, repo)}
                 => pure.out = [matched |-> TRUE, owner |-> owner, repo |-> repo]
        /\ ~HasCoordinate(pure.arg, HostSlash, TRUE) /\ ~HasCoordinate(pure.arg, HostColon, FALSE)
              => ~pure.out.matched

\* The <<"g", "i", "t", "@", "g", "i", "t", "h", "u", "b", ".", "c", "o", "m", ":">> form of o/a.b was parsed to owner o and repo a.b.
C14_Witness ==
    /\ UrlParsed
    /\ pure.arg = SshForm(<<"o">>, <<"a", ".", "b">>)
    /\ pure.out = [matched |-> TRUE, owner |-> <<"o">>, repo |-> <<"a", ".", "b">>]

\* A string without a repository part was rejected.
C14_Rejected ==
    /\ UrlParsed
    /\ pure.arg = HttpsHost \o <<"o">> \o <<"/">>
    /\ ~pure.out.matched

\* ------------------------------------------------------------------------
\* The command-line program's shouldIncludeCommit (SpecCliFilter)
\* ------------------------------------------------------------------------

\* shouldIncludeCommit(files, targetDir, excludeDir) of src/index.js.
cliShouldIncludeCommit(files, targetDir, excludeDir) ==
    LET hasTargetChanges ==
            IF Truthy(targetDir)
            THEN \E i \in 1..Len(files) : StartsWith(files[i], targetDir)
            ELSE FALSE
        hasExcludeChanges ==
            IF Truthy(excludeDir)
            THEN \E i \in 1..Len(files) : StartsWith(files[i], excludeDir)
            ELSE FALSE
    IN  IF Falsy(targetDir) /\ Falsy(excludeDir) THEN TRUE
        ELSE IF Truthy(targetDir) THEN hasTargetChanges
        ELSE IF Truthy(excludeDir) THEN ~hasExcludeChanges
        ELSE TRUE

\* What --exclude-dir may be given as.
CliExcludeDirs == {<<>>, <<"x">>, <<"x", "/">>, <<"s", "/", "x">>}

\* The program evaluates shouldIncludeCommit(files, targetDir, excludeDir).
EvaluateCli ==
    /\ ~fDone
    /\ fResult' = cliShouldIncludeCommit(fFiles, fTargetDir, fExclude)
    /\ fDone' = TRUE
    /\ UNCHANGED <<fFiles, fTargetDir, fExclude>>
    /\ UNCHANGED <<runVars, legacy, pure>>

InitCliFilter ==
    /\ fFiles \in SeqsUpTo(FilePaths, MaxFiles)
    /\ fTargetDir \in FilterTargetDirs
    /\ fExclude \in CliExcludeDirs
    /\ fResult = FALSE
    /\ fDone = FALSE
    /\ RunIdle
    /\ LegacyIdle
    /\ PureIdle

NextCliFilter == EvaluateCli

SpecCliFilter == InitCliFilter /\ [][NextCliFilter]_vars

\* C16: with --exclude-dir and no --target-dir a commit is excluded only
\* when all of its changed files are in the exclude directory; one that
\* changes a file outside of it is kept.
C16_ExcludedOnlyWhenAllInside ==
    fDone /\ Falsy(fTargetDir) /\ Truthy(fExclude) =>
        (~fResult => \A i \in 1..Len(fFiles) : StartsWith(fFiles[i], fExclude))

\* ------------------------------------------------------------------------
\* The resolvers on a repository with annotated tags (SpecTags)
\* ------------------------------------------------------------------------

\* The ids of the annotated-tag objects of the repository; the other ids,
\* RefShas, are commits.
TagObjects == {7}

\* The commit an annotated-tag object points to.
TargetOf(tagSha) == CHOOSE c \in RefShas : \A d \in RefShas : c <= d

\* response.data.object.type of a tag ref.
TypeOf(sha) == IF sha \in TagObjects THEN "tag" ELSE "commit"

\* What the provider holds for the label asked about: the answer of
\* repos.getCommit for it, the object its tag ref points to, the commit its
\* branch points to, the answer of git.getCommit for it (NoSha: the lookup
\* fails), and whether repos.getCommit peels the id of a tag object to its
\* commit or rejects it.
TagProviders ==
    [commit : {NoSha} \cup RefShas,
     tag : {NoSha} \cup RefShas \cup TagObjects,
     head : {NoSha} \cup RefShas,
     gitCommit : {NoSha} \cup RefShas,
     peels : BOOLEAN]

\* The three answers of the provider for a label.
LabelAnswers(p) == <<p.commit, p.tag, p.head>>

\* The three answers of the provider when the label is an object id: a
\* commit id is found as a commit, and no tag or branch bears its name.
IdAnswers(p, sha) ==
    <<IF sha \in RefShas THEN sha
      ELSE IF sha \in TagObjects /\ p.peels THEN TargetOf(sha)
      ELSE NoSha,
      NoSha, NoSha>>

\* getCommitSha of src/index.js: the tag first, an annotated tag
\* dereferenced with git.getTag, then git.getCommit.
cliGetCommitSha(p, tagOrCommit) ==
    LET c1 == Call("getRef.tags", tagOrCommit, NoSha, 0)
        c2 == Call("getTag", tagOrCommit, p.tag, 0)
        c3 == Call("git.getCommit", tagOrCommit, NoSha, 0)
    IN  IF p.tag # NoSha
        THEN IF TypeOf(p.tag) = "tag"
             THEN [ok |-> TRUE, sha |-> TargetOf(p.tag), calls |-> <<c1, c2>>,
                   label |-> tagOrCommit]
             ELSE [ok |-> TRUE, sha |-> p.tag, calls |-> <<c1>>, label |-> tagOrCommit]
        ELSE IF p.gitCommit # NoSha
        THEN [ok |-> TRUE, sha |-> p.gitCommit, calls |-> <<c1, c3>>, label |-> tagOrCommit]
        ELSE [ok |-> FALSE, sha |-> NoSha, calls |-> <<c1, c3>>, label |-> tagOrCommit]

NotCalled == [ok |-> FALSE, sha |-> NoSha, calls |-> <<>>, label |-> ""]

NoResolutions ==
    [called |-> {}, first |-> NotCalled, second |-> NotCalled, again |-> NotCalled,
     cli |-> NotCalled]

Resolving == pure.fn = "getCommitSha"

\* getCommitSha(octokit, owner, repo, "a").
ResolveLabel ==
    /\ Resolving /\ "first" \notin pure.out.called
    /\ pure' = [pure EXCEPT !.out.first = getCommitSha(LabelAnswers(pure.arg), "a"),
                            !.out.called = @ \cup {"first"}]
    /\ UNCHANGED <<runVars, filterVars, legacy>>

\* The same call once more, the provider being as it was.
ResolveLabelAgain ==
    /\ Resolving /\ "first" \in pure.out.called /\ "second" \notin pure.out.called
    /\ pure' = [pure EXCEPT !.out.second = getCommitSha(LabelAnswers(pure.arg), "a"),
                            !.out.called = @ \cup {"second"}]
    /\ UNCHANGED <<runVars, filterVars, legacy>>

\* getCommitSha on the identifier that the first call returned.
ResolveIdentifier ==
    /\ Resolving /\ "first" \in pure.out.called /\ "again" \notin pure.out.called
    /\ pure.out.first.ok
    /\ pure' = [pure EXCEPT !.out.again = getCommitSha(IdAnswers(pure.arg, pure.out.first.sha),
                                                        "sha"),
                            !.out.called = @ \cup {"again"}]
    /\ UNCHANGED <<runVars, filterVars, legacy>>

\* The command-line program's getCommitSha(owner, repo, "a").
CliResolveLabel ==
    /\ Resolving /\ "cli" \notin pure.out.called
    /\ pure' = [pure EXCEPT !.out.cli = cliGetCommitSha(pure.arg, "a"),
                            !.out.called = @ \cup {"cli"}]
    /\ UNCHANGED <<runVars, filterVars, legacy>>

InitTags ==
    /\ \E p \in TagProviders :
          pure = [fn |-> "getCommitSha", arg |-> p, out |-> NoResolutions, done |-> FALSE]
    /\ RunIdle
    /\ FilterIdle
    /\ LegacyIdle

NextTags ==
    \/ ResolveLabel
    \/ ResolveLabelAgain
    \/ ResolveIdentifier
    \/ CliResolveLabel

SpecTags == InitTags /\ [][NextTags]_vars

Called(which) == Resolving /\ which \in pure.out.called

\* The label was resolved by the tag step: the commit lookup failed and the
\* tag ref was found.
ByTagStep == pure.arg.commit = NoSha /\ pure.arg.tag # NoSha

\* C19: with the provider unchanged a repeated getCommitSha for the same
\* label returns the same identifier, and getCommitSha on an identifier it
\* returned returns that identifier again.
C19_StableAndIdempotent ==
    /\ Called("second") => pure.out.second.ok = pure.out.first.ok
                           /\ pure.out.second.sha = pure.out.first.sha
    /\ Called("again") => pure.out.again.ok /\ pure.out.again.sha = pure.out.first.sha

\* The repeated call returns what the first call returned.
C19_Stable ==
    Called("second") => pure.out.second.ok = pure.out.first.ok
                        /\ pure.out.second.sha = pure.out.first.sha

\* An identifier that is a commit id resolves to itself.
C19_IdempotentOnCommits ==
    Called("again") /\ pure.out.first.sha \in RefShas =>
        pure.out.again.ok /\ pure.out.again.sha = pure.out.first.sha

\* C20: a label resolved by the tag step whose tag ref points to an
\* annotated-tag object yields the tag's target commit id, never the id of
\* the tag object.
C20_AnnotatedTagDereferenced ==
    Called("first") /\ ByTagStep /\ TypeOf(pure.arg.tag) = "tag" =>
        /\ pure.out.first.ok
        /\ pure.out.first.sha = TargetOf(pure.arg.tag)
        /\ pure.out.first.sha \notin TagObjects

\* The command-line program does dereference the annotated tag.
C20_CliDereferences ==
    Called("cli") /\ pure.arg.tag # NoSha /\ TypeOf(pure.arg.tag) = "tag" =>
        /\ pure.out.cli.ok
        /\ pure.out.cli.sha = TargetOf(pure.arg.tag)
        /\ pure.out.cli.sha \notin TagObjects

\* ------------------------------------------------------------------------
\* The pages of the graph walk (SpecLegacy)
\* ------------------------------------------------------------------------

\* A graph run that returned what the graph walk collected.
GraphReturned(r) == r.result.returned /\ r.result.success /\ GraphCalled(r) /\ ~r.graphFailed

\* C25: every page the graph walk requests, the pages after the first
\* included, is a page of the history that starts at the head commit, and
\* every commit the graph strategy returns is in that history.
C25_PagesStartAtHead ==
    /\ \A k \in 1..Len(legacy.cur.expressions) : legacy.cur.expressions[k] = "headSha"
    /\ GraphReturned(legacy.cur) =>
          Elements(legacy.cur.result.commits) \subseteq Elements(History(legacy.prov.n))

\* The first page is a page of the head commit's history, and so is every
\* commit of a run that needed one page only.
C25_FirstPage ==
    /\ legacy.cur.expressions # <<>> => legacy.cur.expressions[1] = "headSha"
    /\ (GraphReturned(legacy.cur) /\ Len(legacy.cur.expressions) = 1) =>
          Elements(legacy.cur.result.commits) \subseteq Elements(History(legacy.prov.n))

\* A graph run returns a commit that is not in the head commit's history.
C25_ForeignCommit ==
    /\ GraphReturned(legacy.cur)
    /\ ~(Elements(legacy.cur.result.commits) \subseteq Elements(History(legacy.prov.n)))

\* ------------------------------------------------------------------------
\* The path-scoped walk over several pages (SpecWalk)
\* ------------------------------------------------------------------------

\* The longest head-side listing, in pages of perPage commits.
MaxPages == 2

\* Lengths of the head-side listing: around every page boundary.
WalkLengths ==
    {n \in 0..(MaxPages * perPage + 1) :
        \E k \in 0..MaxPages : n \in {k * perPage - 1, k * perPage, k * perPage + 1}}

\* The base commit: on the first page, last of a page, first of the next
\* page, last of the last page, or not in the listing.
WalkBases == {3, perPage, perPage + 1, MaxPages * perPage, 999}

\* The repository the walk reads: what `a` and `b` resolve to and how many
\* commits the listing from the head holds.
WalkProviders ==
    {[NoProvider EXCEPT !.refs["a"] = <<b, NoSha, NoSha>>,
                        !.refs["b"] = <<1, NoSha, NoSha>>,
                        !.fetch = [asked |-> TRUE, fails |-> FALSE, n |-> n]] :
        b \in WalkBases, n \in WalkLengths}

InitWalk ==
    /\ opts = [repoUrl |-> ValidUrl, from |-> "a", to |-> "b",
               targetDir |-> <<"s">>, excludeSubPaths |-> <<>>]
    /\ prov \in WalkProviders
    /\ run = NoRun
    /\ prev = NoRun
    /\ FilterIdle
    /\ LegacyIdle
    /\ PureIdle

NextWalk ==
    \/ StartRun("get", "none")
    \/ StartRun("stream", "none")
    \/ ResolveFrom
    \/ ResolveTo
    \/ PageStep
    \/ IntersectStep
    \/ FilterStep
    \/ BatchStep
    \/ DelayStep

SpecWalk == InitWalk /\ [][NextWalk]_vars

\* ------------------------------------------------------------------------
\* Both walks (SpecWalks): a caller runs the path-scoped walk of the core or
\* the graph walk of the earlier core / the command-line program.
\* ------------------------------------------------------------------------

InitWalks == InitWalk \/ InitLegacy

\* The path-scoped walk reads a repository of WalkProviders, the graph walk
\* one of LegacyAnswers.
NextWalks ==
    \/ prov.fetch.asked /\ NextWalk
    \/ ~prov.fetch.asked /\ NextLegacy

SpecWalks == InitWalks /\ [][NextWalks]_vars

\* The ids of the calls of one api in a call log.
CallsOf(s, api) == {k \in 1..Len(s.calls) : s.calls[k].api = api}

\* The head-side listing of the path-scoped walk.
Listing == History(prov.fetch.n)

\* The path-scoped walk has scanned the base commit.
BaseScanned(s) == s.fromSha # NoSha /\ s.fromSha \in s.listCommitShas

\* The page of a listing that holds its k-th commit.
PageHolding(k, per) == ((k - 1) \div per) + 1

\* The walk stops at the base: what it collected is the listing before the
\* base, and the page that holds the base is the last one requested.
StopsAtBase(s) ==
    LET at == IndexOf(Listing, s.fromSha)
    IN  /\ s.allCommits = SubSeq(Listing, 1, at - 1)
        /\ s.page = PageHolding(at, perPage)
        /\ Cardinality(CallsOf(s, "listCommits")) = s.page

\* The page size of a graph run.
GraphSize(r) == IF r.program = "core" THEN REQUEST_SIZE ELSE CLI_REQUEST_SIZE

\* The k-th page a graph run was sent.
GraphData(r, k) == PageOf(HistoryOf(r.expressions[k], legacy.prov), GraphSize(r), k)

\* The graph walk stops at the base: no page was requested after a page
\* that holds the base, and a run that ends on such a page has collected
\* the full pages before it and that page up to the base.
GraphStopsAtBase(r) ==
    LET base == BaseSha(legacy.prov.b)
        last == Len(r.expressions)
    IN  /\ \A k \in 1..(last - 1) : base \notin Elements(GraphData(r, k))
        /\ (GraphReturned(r) /\ base \in Elements(GraphData(r, last))) =>
              Len(r.allCommits) = (last - 1) * GraphSize(r) + IndexOf(GraphData(r, last), base) - 1

\* C21: in the path-scoped walk and in the graph walk, a scanned commit
\* whose id is the base's is not added, nothing after it in its page is
\* added and no further page is requested, so that the returned range never
\* holds the base.
C21_WalksStopAtBase ==
    /\ run.fromSha \notin (Elements(run.allCommits) \cup Elements(run.fetched)
                              \cup Elements(run.result.commits) \cup Elements(run.processedCommits))
    /\ BaseScanned(run) => StopsAtBase(run)
    /\ BaseSha(legacy.prov.b) \notin (Elements(legacy.cur.allCommits)
                                         \cup (IF GraphReturned(legacy.cur)
                                               THEN Elements(legacy.cur.result.commits) ELSE {}))
    /\ GraphStopsAtBase(legacy.cur)

\* The path-scoped walk met the base on its second page, with commits
\* listed after it, and returned.
C21_Witness ==
    /\ run.result.returned /\ run.result.success
    /\ BaseScanned(run)
    /\ run.page = 2
    /\ IndexOf(Listing, run.fromSha) < Len(Listing)

\* The graph walk met the base on its second page and returned.
C21_GraphWitness ==
    /\ GraphReturned(legacy.cur)
    /\ Len(legacy.cur.expressions) = 2
    /\ BaseSha(legacy.prov.b) \in Elements(GraphData(legacy.cur, 2))

\* ------------------------------------------------------------------------
\* The intersection search (SpecWalk)
\* ------------------------------------------------------------------------

\* The run has made its intersection search and went on.
Searched(s) ==
    /\ CallsOf(s, "listCommits.base") # {}
    /\ s.pc # "awaitIntersect"
    /\ ~prov.isect.fails

\* The search found an id of the set collected from the head.
IntersectionFound(s) ==
    /\ Searched(s)
    /\ prov.isect.data # <<>>
    /\ prov.isect.data[1] \in s.listCommitShas

\* C22: when the base was not met and the search from the base finds an id
\* collected from the head, getCommitsBetweenREST returns the commits
\* collected from the head, in order, before that id: neither the
\* intersection commit nor a commit listed after it is returned.
C22_RangeBeforeIntersection ==
    IntersectionFound(run) =>
        LET at == IndexOf(Listing, prov.isect.data[1])
        IN  /\ ~BaseScanned(run)
            /\ at # 0
            /\ run.fetched = SubSeq(Listing, 1, at - 1)
            /\ \A k \in at..Len(Listing) : Listing[k] \notin Elements(run.fetched)

\* An intersection in the middle of a listing of more than one page.
C22_Witness ==
    /\ IntersectionFound(run)
    /\ run.result.returned
    /\ run.page > 1
    /\ IndexOf(Listing, prov.isect.data[1]) > 1
    /\ Len(run.fetched) > 1

\* The search ended without an id of the set collected from the head.
NothingFound(s) == Searched(s) /\ ~IntersectionFound(s)

\* C23: when the search ends without a shared id, getCommitsBetweenREST
\* returns the whole collection from the head unchanged, and its caller is
\* told that the boundary was not confirmed.
C23_UnconfirmedBoundarySignalled ==
    NothingFound(run) => (run.fetched = Listing /\ run.boundaryNotice)

\* The collection is returned unchanged; streamCommitsBetween, which passes
\* its progress callback, is sent the progress message.
C23_ReturnedUnchanged ==
    NothingFound(run) => (run.fetched = Listing /\ (run.mode = "stream" => run.boundaryNotice))

\* getCommitsBetween got the whole collection after a search that found
\* nothing, and nothing else.
C23_SilentReturn ==
    /\ NothingFound(run)
    /\ run.mode = "get"
    /\ run.result.returned /\ run.result.success /\ run.result.warning = ""
    /\ Len(run.fetched) > perPage

\* ------------------------------------------------------------------------
\* The order of the requests (SpecWalk)
\* ------------------------------------------------------------------------

\* The head-side page requests of a run, in the order they were made.
PageRequests(s) == SelectSeq(s.calls, LAMBDA c : c.api = "listCommits")

\* A page after which the walk goes on: full, and without the base.
GoesOn(s, data) == Len(data) = perPage /\ s.fromSha \notin Elements(data)

\* The request a run is waiting for is the last one it made.
AwaitsLastRequest(s) ==
    /\ s.pc = "awaitPage" =>
          /\ s.calls[Len(s.calls)] = Call("listCommits", "", s.toSha, s.page)
          /\ Len(s.allCommits) = (s.page - 1) * perPage
          /\ Len(s.allCommits) <= Len(Listing)
          /\ s.allCommits = SubSeq(Listing, 1, Len(s.allCommits))
          /\ s.listCommitShas = Elements(s.allCommits)
    /\ s.pc = "awaitIntersect" =>
          s.calls[Len(s.calls)] = Call("listCommits.base", "", s.fromSha, s.intersectionPage)

\* C24: a run waits for one request at a time and asks for the pages in
\* order: page N+1 is requested only after page N was scanned to its end
\* and was neither empty, nor short, nor holding the base.
C24_OneRequestPagesInOrder ==
    /\ AwaitsLastRequest(run)
    /\ \A k \in 1..Len(PageRequests(run)) :
          /\ PageRequests(run)[k].page = k
          /\ k > 1 => GoesOn(run, PageOf(Listing, perPage, k - 1))

\* A walk that asked for a third page.
C24_Witness == Len(PageRequests(run)) >= 3 /\ run.result.returned

\* C30: the intersection search is bounded: it runs only when the base was
\* not met and the walk from the head collected at least one id, it makes
\* exactly one listing request, for the first page of one commit from the
\* base, and it tests at most one id before it stops.
C30_SearchBounded ==
    /\ Cardinality(CallsOf(run, "listCommits.base")) <= 1
    /\ run.checkedCount <= 1
    /\ \A k \in CallsOf(run, "listCommits.base") :
          /\ run.calls[k] = Call("listCommits.base", "", run.fromSha, 1)
          /\ ~BaseScanned(run)
          /\ run.listCommitShas # {}
    /\ (run.result.returned /\ run.result.success /\ ~BaseScanned(run) /\ run.listCommitShas # {}) =>
          Cardinality(CallsOf(run, "listCommits.base")) = 1

\* A search that tested one id, did not find it in the head's listing and
\* ended.
C30_Witness ==
    /\ NothingFound(run)
    /\ run.checkedCount = 1
    /\ run.result.returned
    /\ Len(run.fetched) >= 1

\* ------------------------------------------------------------------------
\* The changed-file lookups of a run (Spec)
\* ------------------------------------------------------------------------

\* The commits whose changed files a run has looked up, one per lookup.
LookedUp(s) == [k \in 1..Len(FileLookups(s)) |-> FileLookups(s)[k].sha]

\* The commits a run has kept so far.
KeptSoFar(s) == IF s.mode = "get" THEN s.result.commits ELSE s.processedCommits

\* The looked-up commits whose lookup failed.
FailedLookups(s) == {sha \in Elements(LookedUp(s)) : LookupFails(prov.pattern, sha)}

\* C26: a failed changed-file lookup does not make the run fail: the run
\* returns success, leaves the commit out when targetDir is set and
\* otherwise treats it as a commit without files.
C26_FailedLookupTolerated ==
    /\ (run.pc = "done" /\ LookedUp(run) # <<>>) => (run.result.returned /\ run.result.success)
    /\ \A sha \in FailedLookups(run) :
          /\ Truthy(opts.targetDir) => sha \notin Elements(KeptSoFar(run))
          /\ sha \in Elements(KeptSoFar(run)) <=>
                shouldIncludeCommit(<<>>, opts.targetDir, opts.excludeSubPaths)

\* A finished run with a failed lookup under targetDir whose commit was left
\* out while another commit was kept.
C26_Witness ==
    /\ run.pc = "done" /\ run.result.success
    /\ Truthy(opts.targetDir)
    /\ FailedLookups(run) # {}
    /\ KeptSoFar(run) # <<>>

\* A finished run without criteria that kept a commit whose lookup failed.
C26_KeptWithoutFiles ==
    /\ run.pc = "done" /\ run.result.success
    /\ ~HasCriteria
    /\ \E sha \in FailedLookups(run) : sha \in Elements(KeptSoFar(run))

\* ------------------------------------------------------------------------
\* The lookups of filterCommitsByDirectory on commits that may carry their
\* files (SpecLookups)
\* ------------------------------------------------------------------------

\* The most commits of a list handed to filterCommitsByDirectory.
MaxPayload == 3

\* commit.files as a caller may pass it: not filled in, or the file names.
PayloadFiles == {<<>>, <<InTarget>>, <<Outside>>}

\* Lists of distinct commits, each with its id and its files.
Payloads ==
    {p \in SeqsUpTo([sha : 1..MaxPayload, files : PayloadFiles], MaxPayload) :
        \A i, j \in 1..Len(p) : i # j => p[i].sha # p[j].sha}

\* The lookup made although the commit carries its files.
NeedsLookup_Always(commit) == TRUE

\* if (files.length === 0) / if (!commit.files || commit.files.length === 0)
NeedsLookup(commit) == Len(commit.files) = 0

\* The files the filter tests for a commit.
FilesFor(commit, pattern) ==
    IF NeedsLookup(commit) THEN getFilesChangedInCommit(pattern, commit.sha) ELSE commit.files

\* filterCommitsByDirectory: the commits kept and the lookups made, by id.
filterCommitsByDirectory(commits, targetDir, excludeSubPaths, pattern) ==
    LET ids(q) == [k \in 1..Len(q) |-> q[k].sha]
    IN  IF Falsy(targetDir) /\ Falsy(excludeSubPaths)
        THEN [commits |-> ids(commits), lookups |-> <<>>]
        ELSE [commits |-> ids(SelectSeq(commits, LAMBDA c :
                              shouldIncludeCommit(FilesFor(c, pattern), targetDir, excludeSubPaths))),
              lookups |-> ids(SelectSeq(commits, NeedsLookup))]

\* A caller awaits filterCommitsByDirectory(octokit, commits, ...).
ApplyFilter ==
    /\ pure.fn = "filterCommitsByDirectory" /\ ~pure.done
    /\ pure' = [pure EXCEPT !.out = filterCommitsByDirectory(pure.arg.commits, pure.arg.targetDir,
                                                             pure.arg.excludeSubPaths, pure.arg.pattern),
                            !.done = TRUE]
    /\ UNCHANGED <<runVars, filterVars, legacy>>

InitLookup ==
    /\ \E p \in Payloads, t \in TargetDirs, e \in ExcludeOptions, n \in {1, 2} :
          pure = [fn |-> "filterCommitsByDirectory",
                  arg |-> [commits |-> p, targetDir |-> t, excludeSubPaths |-> e, pattern |-> n],
                  out |-> <<>>, done |-> FALSE]
    /\ RunIdle
    /\ FilterIdle
    /\ LegacyIdle

InitLookups == Init \/ InitLookup

\* A run of an entry point, or a call of filterCommitsByDirectory.
NextLookups ==
    \/ PureIdle /\ Next
    \/ ApplyFilter

SpecLookups == InitLookups /\ [][NextLookups]_vars

NoRepeats(q) == \A i, j \in 1..Len(q) : i # j => q[i] # q[j]

Filtered == pure.fn = "filterCommitsByDirectory" /\ pure.done

\* C27: within one run the changed-file lookup is made at most once per
\* commit, and a commit that already carries its file list is not looked
\* up.
C27_LookupOncePerCommit ==
    /\ \A r \in Runs :
          /\ NoRepeats(LookedUp(r))
          /\ Elements(LookedUp(r)) \subseteq Elements(r.commits)
    /\ Filtered =>
          /\ NoRepeats(pure.out.lookups)
          /\ \A k \in 1..Len(pure.arg.commits) :
                pure.arg.commits[k].files # <<>> =>
                    pure.arg.commits[k].sha \notin Elements(pure.out.lookups)

\* A filtered list with a commit that carried its files and one that was
\* looked up.
C27_Witness ==
    /\ Filtered
    /\ pure.out.lookups # <<>>
    /\ \E k \in 1..Len(pure.arg.commits) : pure.arg.commits[k].files # <<>>

\* A finished stream run that looked up more than one batch of commits.
C27_RunWitness ==
    /\ run.mode = "stream" /\ run.pc = "done"
    /\ Len(LookedUp(run)) > BATCH_SIZE

\* ------------------------------------------------------------------------
\* The progress reported with the batches (Spec)
\* ------------------------------------------------------------------------

\* The number of commits handed over in the first k batches of a run.
DeliveredUpTo(r, k) == Len(Concat([j \in 1..k |-> r.batches[j].commits]))

\* A stream run that went through its batch loop and returned.
LoopFinished(r) == r.mode = "stream" /\ r.pc = "done" /\ r.result.success /\ r.commits # <<>>

C28_EmptySummary ==
    \A r \in Runs :
        (r.mode = "stream" /\ r.pc = "done" /\ r.result.success /\ r.commits = <<>>) =>
            (r.result.total = 0 /\ r.result.processed = 0 /\ r.result.skipped = -1)

\* ------------------------------------------------------------------------
\* Failure and the batches (Spec)
\* ------------------------------------------------------------------------

\* The batch loop of a run has started: a lookup was made or awaited.
LoopStarted(r) == r.pc \in {"awaitFiles", "awaitDelay"} \/ LookedUp(r) # <<>> \/ r.batches # <<>>

\* C29: a streamCommitsBetween run that returns success=false never called
\* onBatch: the URL, the references and the range fetch fail before the
\* first batch, and once the batch loop has started neither a failed lookup
\* nor a throwing callback makes the run fail.
C29_FailureBeforeFirstBatch ==
    \A r \in Runs :
        r.mode = "stream" =>
            /\ (r.result.returned /\ ~r.result.success) =>
                  (r.batches = <<>> /\ LookedUp(r) = <<>> /\ "commits" \notin Elements(r.records))
            /\ (LoopStarted(r) /\ r.pc = "done") => (r.result.returned /\ r.result.success)
            /\ (r.pc = "done") => r.result.returned

\* A run whose range fetch failed after both references were resolved.
C29_Witness ==
    /\ run.mode = "stream"
    /\ run.result.returned /\ ~run.result.success
    /\ run.result.error = "FetchFailed"
    /\ run.batches = <<>>

\* A finished run whose onBatch threw on every batch and whose lookups
\* failed for some commits.
C29_LoopWitness ==
    /\ run.mode = "stream" /\ run.pc = "done" /\ run.result.success
    /\ run.cbThrows \in {"batch", "both"}
    /\ FailedLookups(run) # {}
    /\ Len(run.batches) >= 2

====
